---- MODULE Spec2Model ----
(***************************************************************************)
(* Verification model of the classification / extraction / fusion core of  *)
(* the fillform backend (src/backend/extraction).                          *)
(*                                                                         *)
(* Python dictionaries are TLA+ functions whose DOMAIN is the key set,     *)
(* lists are sequences, strings that the code normalises are sequences of  *)
(* characters, and confidences / keyword weights are integers in           *)
(* hundredths (0.40 is 40).                                                *)
(*                                                                         *)
(* ExtractionResult is modelled with the fields that every constructor     *)
(* call of the extraction framework passes and every consumer reads        *)
(* (success, data, confidence, warnings, errors, metadata).                *)
(***************************************************************************)
EXTENDS Integers, Sequences, FiniteSets, TLC

VARIABLES
    extractors,     \* ExtractorRegistry._extractors : DocumentType -> class name
    resolved,       \* outcome of the last get_extractor_for_document call
    extraction,     \* outcome of the last ExtractorFactory.extract call
    registrations,  \* number of register() calls made after construction
    classifiers,    \* CompositeClassifier.classifiers, as they act on the document
    strategy,       \* CompositeClassifier.strategy
    classification, \* outcome of the last CompositeClassifier.classify call
    kw_text,        \* Document.raw_text given to the KeywordClassifier, as its phrases
    keyword_result, \* outcome of the last KeywordClassifier.classify call
    group,          \* the DocumentGroup given to FusionStrategy.fuse
    config,         \* the FusionStrategy constructor arguments
    individual_results, \* the (document, result) pairs _extract_all has built
    extract_calls,  \* number of ExtractorFactory.extract calls made by fuse
    pc,             \* where fuse is: "extract_all", then "done"
    fuse_result,    \* what fuse returned
    rep_document,    \* the Document classified and extracted repeatedly
    clock,    \* what datetime.utcnow() returns now
    runs,    \* what each classify-then-extract of rep_document returned
    pipeline,    \* the ExtractionPipeline constructor arguments
    pip_file,    \* the file at the path given to process
    pip_document,    \* the Document that process loads and passes along
    ppc,    \* where process is: "load", "classify", "extract", then "done"
    pip_result,    \* what process returned
    sov_document,    \* the SOV Document handed to SovExtractor.extract
    sov_result,    \* what SovExtractor.extract returned
    cls_document,    \* the Document whose type and confidence callers set
    cls_call,    \* the last call made on cls_document
    batch_files,    \* the file_paths argument of process_batch: what each path leads to
    continue_on_error,    \* the continue_on_error argument of process_batch
    batch_results,    \* the results list of process_batch
    batch_return    \* what process_batch returned

regVars == <<extractors, resolved, extraction, registrations>>
cmpVars == <<classifiers, strategy, classification>>
kwVars == <<kw_text, keyword_result>>
fusVars == <<group, config, individual_results, extract_calls, pc, fuse_result>>
repVars == <<rep_document, clock, runs>>
pipVars == <<pipeline, pip_file, pip_document, ppc, pip_result>>
sovVars == <<sov_document, sov_result>>
docVars == <<cls_document, cls_call>>
batVars == <<batch_files, continue_on_error, batch_results, batch_return>>
vars == <<regVars, cmpVars, kwVars, fusVars, repVars, pipVars, sovVars, docVars, batVars>>

(***************************************************************************)
(* Bounds                                                                  *)
(***************************************************************************)
MaxRegistrations == 1
MaxFailedImports == 1
MaxClassifiers == 3
MaxPhrases == 3
MaxDocuments == 2
MaxClock == 2
MaxRuns == 2
MaxMembers == 2
MaxRegistered == 1
MaxHeaders == 3
MaxRows == 2
MaxVoters == 5
MaxFiles == 2

(***************************************************************************)
(* core/document.py                                                        *)
(***************************************************************************)
DocumentTypeOrder ==
    << "ACORD_126", "ACORD_125", "ACORD_130", "ACORD_140", "LOSS_RUN",
       "SOV", "FINANCIAL_STATEMENT", "SUPPLEMENTAL", "GENERIC", "UNKNOWN" >>

DocumentType == { DocumentTypeOrder[i] : i \in 1..Len(DocumentTypeOrder) }

\* dict.get(key, default)
Get(d, k, default) == IF k \in DOMAIN d THEN d[k] ELSE default

\* the outcomes of a call: a returned value or a raised exception
Return(v) == [kind |-> "return", value |-> v]
Raise(exc, msg) == [kind |-> "raise", exc |-> exc, message |-> msg]

\* ExtractionResult(success=..., data=..., confidence=..., warnings=..., errors=...)
ExtractionResult(success, data, confidence, warnings, errors) ==
    [success |-> success, data |-> data, confidence |-> confidence,
     warnings |-> warnings, errors |-> errors, metadata |-> <<>>]

SheetExtensions == {".xlsx", ".xls", ".csv"}

(***************************************************************************)
(* extractors/registry.py                                                  *)
(***************************************************************************)
ExtractorClasses ==
    { "Acord126Extractor", "Acord125Extractor", "Acord130Extractor",
      "Acord140Extractor", "LossRunExtractor", "SovExtractor",
      "FinancialStatementExtractor", "SupplementalExtractor",
      "GenericExtractor" }

\* the class each default registration binds to its document type
DefaultClass ==
    [t \in DocumentType |->
        CASE t = "ACORD_126" -> "Acord126Extractor"
          [] t = "ACORD_125" -> "Acord125Extractor"
          [] t = "ACORD_130" -> "Acord130Extractor"
          [] t = "ACORD_140" -> "Acord140Extractor"
          [] t = "LOSS_RUN" -> "LossRunExtractor"
          [] t = "SOV" -> "SovExtractor"
          [] t = "FINANCIAL_STATEMENT" -> "FinancialStatementExtractor"
          [] t = "SUPPLEMENTAL" -> "SupplementalExtractor"
          [] OTHER -> "GenericExtractor"]

\* _register_default_extractors: a registration whose import fails is skipped
RegisterDefaultExtractors(failedImports) ==
    [t \in DocumentType |->
        IF DefaultClass[t] \in failedImports THEN "None" ELSE DefaultClass[t]]

\* ExtractorRegistry.get_extractor: an instance of the registered class, or None
GetExtractor(reg, document_type) == reg[document_type]

\* can_extract of each extractor class, called with the Document
CanExtract(cls, document) ==
    CASE cls = "Acord126Extractor" ->
            \* can_extract(pdf_path): os.path.exists(<Document>) raises TypeError
            Raise("TypeError", "stat: path should be string, bytes, os.PathLike or integer, not Document")
      [] cls = "Acord125Extractor" -> Return(document.document_type = "ACORD_125")
      [] cls = "Acord130Extractor" -> Return(document.document_type = "ACORD_130")
      [] cls = "Acord140Extractor" -> Return(document.document_type = "ACORD_140")
      [] cls = "LossRunExtractor" ->
            Return(document.document_type = "LOSS_RUN"
                   /\ (document.tables # <<>> \/ document.raw_text # ""))
      [] cls = "SovExtractor" ->
            Return(document.document_type = "SOV"
                   /\ (document.tables # <<>> \/ document.file_extension \in SheetExtensions))
      [] cls = "FinancialStatementExtractor" ->
            Return(document.document_type = "FINANCIAL_STATEMENT"
                   /\ (document.tables # <<>> \/ document.file_extension \in SheetExtensions))
      [] cls = "SupplementalExtractor" -> Return(document.document_type = "SUPPLEMENTAL")
      [] OTHER -> Return(TRUE)

\* ExtractorRegistry.get_extractor_for_document
GetExtractorForDocument(reg, document) ==
    LET extractor == GetExtractor(reg, document.document_type)
        can == IF extractor = "None" THEN Return(FALSE) ELSE CanExtract(extractor, document)
    IN  IF can.kind = "raise" THEN can
        ELSE IF can.value THEN Return(extractor)
        ELSE Return("GenericExtractor")

(***************************************************************************)
(* extractors/generic_extractor.py and the extractor interface             *)
(***************************************************************************)
\* the attributes Document.__init__ creates; file_size is not one of them
DocumentAttributes ==
    { "id", "file_path", "file_name", "mime_type", "file_extension",
      "document_type", "status", "confidence", "raw_text", "tables", "images",
      "metadata", "structure", "created_at", "updated_at", "errors", "warnings" }

\* the data GenericExtractor.extract builds when every attribute it reads exists
GenericData(document) ==
    [document_type |-> "generic",
     content |-> [text |-> document.raw_text, has_text |-> document.raw_text # ""],
     tables |-> document.tables,
     statistics |-> [table_count |-> Len(document.tables),
                     has_text |-> document.raw_text # ""]]

\* GenericExtractor._calculate_confidence, in hundredths (no images here;
\* the metadata dict is never empty)
GenericConfidence(document) ==
    50 + (IF document.raw_text # "" THEN 20 ELSE 0)
       + (IF document.tables # <<>> THEN 15 ELSE 0)
       + 5

\* GenericExtractor.extract: _extract_metadata reads document.file_size, and
\* the AttributeError of a missing attribute is caught by the except clause
GenericExtract(document) ==
    IF "file_size" \in DocumentAttributes
    THEN ExtractionResult(TRUE, GenericData(document), GenericConfidence(document), <<>>, <<>>)
    ELSE ExtractionResult(FALSE, <<>>, 0, <<>>,
            << [prefix |-> "Generic extraction failed",
                message |-> "'Document' object has no attribute 'file_size'"] >>)

\* SupplementalExtractor.extract: whatever the kind of supplemental document,
\* building the data reads document.file_size in _extract_metadata, inside the
\* try block whose except clause returns a failed result
SupplementalExtract(document) ==
    IF document.document_type # "SUPPLEMENTAL"
    THEN ExtractionResult(FALSE, <<>>, 0, <<>>,
            << [prefix |-> "Expected SUPPLEMENTAL document, got",
                message |-> document.document_type] >>)
    ELSE IF "file_size" \in DocumentAttributes /\ document.out.kind = "ok"
    THEN ExtractionResult(TRUE, document.out.data, document.out.confidence, <<>>, <<>>)
    ELSE ExtractionResult(FALSE, <<>>, 0, <<>>,
            << [prefix |-> "Supplemental extraction failed",
                message |-> "'Document' object has no attribute 'file_size'"] >>)

\* extractor.extract(document): a type-specific extractor does what the
\* document makes it do (document.out: a successful result, a failed
\* result, or an exception)
ExtractorExtract(cls, document) ==
    IF cls = "GenericExtractor"
    THEN Return(GenericExtract(document))
    ELSE IF cls = "SupplementalExtractor"
    THEN Return(SupplementalExtract(document))
    ELSE CASE document.out.kind = "ok" ->
                Return(ExtractionResult(TRUE, document.out.data, document.out.confidence, <<>>, <<>>))
           [] document.out.kind = "fail" ->
                Return(ExtractionResult(FALSE, <<>>, 0, <<>>, <<"extraction failed">>))
           [] OTHER -> Raise("ValueError", "boom")

(***************************************************************************)
(* extractors/factory.py                                                   *)
(***************************************************************************)
\* a variant whose except clause reports the failure without a message
FactoryExtractSilent(reg, document) ==
    LET r == GetExtractorForDocument(reg, document)
    IN  IF r.kind = "raise" THEN r
        ELSE LET res == ExtractorExtract(r.value, document)
             IN  IF res.kind = "return"
                 THEN Return([res.value EXCEPT !.metadata =
                                [extractor_used |-> r.value,
                                 document_type |-> document.document_type]])
                 ELSE Return(ExtractionResult(FALSE, <<>>, 0, <<>>, <<>>))

\* ExtractorFactory.extract
FactoryExtract(reg, document) ==
    LET r == GetExtractorForDocument(reg, document)
    IN  IF r.kind = "raise" THEN r          \* resolution runs outside the try block
        ELSE LET res == ExtractorExtract(r.value, document)
             IN  IF res.kind = "return"
                 THEN Return([res.value EXCEPT !.metadata =
                                [extractor_used |-> r.value,
                                 document_type |-> document.document_type]])
                 ELSE Return(ExtractionResult(FALSE, <<>>, 0, <<>>,
                        << [prefix |-> "Extraction failed with",
                            extractor |-> r.value,
                            message |-> res.message] >>))

(***************************************************************************)
(* Registry / factory: the public calls, on any document                   *)
(***************************************************************************)
NoCall == [kind |-> "none"]

\* what extractor.extract(document) does for a type-specific extractor
ExtractorBehaviours ==
    { [kind |-> "ok", data |-> [document_type |-> "typed"], confidence |-> 80],
      [kind |-> "fail"],
      [kind |-> "raise"] }

RegistryDocuments ==
    [document_type : DocumentType,
     tables : {<<>>, <<"table">>},
     raw_text : {"", "text"},
     file_extension : {".pdf", ".xlsx"},
     out : ExtractorBehaviours]

\* the extractor modules whose import may fail at registration time
OptionalImports == ExtractorClasses \ {"GenericExtractor"}

\* the classes a caller registers through the public register()
RegistrableClasses == {"GenericExtractor", "LossRunExtractor"}

\* ExtractorRegistry.register(document_type, extractor_class)
Register ==
    /\ registrations < MaxRegistrations
    /\ resolved = NoCall /\ extraction = NoCall
    /\ \E t \in DocumentType, cls \in RegistrableClasses :
          extractors' = [extractors EXCEPT ![t] = cls]
    /\ registrations' = registrations + 1
    /\ UNCHANGED <<resolved, extraction, cmpVars, kwVars, fusVars, repVars, pipVars, sovVars, docVars, batVars>>

\* a caller asks the registry for the extractor of a document
ResolveCall ==
    /\ resolved = NoCall /\ extraction = NoCall
    /\ \E d \in RegistryDocuments :
          resolved' = [kind |-> "call", document |-> d,
                       registered |-> extractors[d.document_type],
                       outcome |-> GetExtractorForDocument(extractors, d)]
    /\ UNCHANGED <<extractors, extraction, registrations, cmpVars, kwVars, fusVars, repVars, pipVars, sovVars, docVars, batVars>>

\* a caller extracts a document through ExtractorFactory.extract
ExtractCall ==
    /\ resolved = NoCall /\ extraction = NoCall
    /\ \E d \in RegistryDocuments :
          extraction' = [kind |-> "call", document |-> d,
                         extractor |-> GetExtractorForDocument(extractors, d),
                         outcome |-> FactoryExtract(extractors, d)]
    /\ UNCHANGED <<extractors, resolved, registrations, cmpVars, kwVars, fusVars, repVars, pipVars, sovVars, docVars, batVars>>

(***************************************************************************)
(* C3: get_extractor_for_document returns an extractor for every           *)
(* DocumentType and every document, registered or not; it never yields     *)
(* None and never fails to return.                                         *)
(***************************************************************************)
C3_AlwaysReturnsExtractor ==
    resolved.kind = "call" =>
        /\ resolved.outcome.kind = "return"
        /\ resolved.outcome.value \in ExtractorClasses

(***************************************************************************)
(* C4: ExtractorFactory.extract never propagates an exception: it returns  *)
(* an ExtractionResult for every document, and when the extractor raised   *)
(* the result is failed and its error carries the extractor's class name   *)
(* and the exception message.                                              *)
(***************************************************************************)
C4_FactoryNeverRaises ==
    extraction.kind = "call" =>
        /\ extraction.outcome.kind = "return"
        /\ (/\ extraction.extractor.kind = "return"
            /\ extraction.extractor.value # "GenericExtractor"
            /\ extraction.document.out.kind = "raise")
           => /\ extraction.outcome.value.success = FALSE
              /\ \E i \in 1..Len(extraction.outcome.value.errors) :
                    /\ extraction.outcome.value.errors[i].extractor = extraction.extractor.value
                    /\ extraction.outcome.value.errors[i].message = "boom"

(***************************************************************************)
(* C17: the Generic extractor never fails: the extraction of a GENERIC or  *)
(* UNKNOWN document through the Factory, and every extraction that falls   *)
(* back to the Generic extractor, returns success=true.                    *)
(***************************************************************************)
C17_GenericNeverFails ==
    (/\ extraction.kind = "call"
     /\ \/ extraction.document.document_type \in {"GENERIC", "UNKNOWN"}
        \/ /\ extraction.extractor.kind = "return"
           /\ extraction.extractor.value = "GenericExtractor")
    => /\ extraction.outcome.kind = "return"
       /\ extraction.outcome.value.success

(***************************************************************************)
(* interfaces/classifier.py : CompositeClassifier                          *)
(***************************************************************************)
\* greatest common divisor, to keep an average sum/len in lowest terms
RECURSIVE Gcd(_, _)
Gcd(a, b) == IF b = 0 THEN a ELSE Gcd(b, a % b)

\* a confidence is a fraction of hundredths: c/1 for a member's own value,
\* sum/len (in lowest terms) for an average
Frac(n, d) == LET g == Gcd(n, d) IN IF g = 0 THEN [num |-> 0, den |-> 1]
                                     ELSE [num |-> n \div g, den |-> d \div g]
FracLess(x, y) == x.num * y.den < y.num * x.den

RECURSIVE SumConf(_)
SumConf(rs) == IF rs = <<>> THEN 0 ELSE rs[1].confidence + SumConf(Tail(rs))

\* max(seq, key=...): Python's max returns the first of the maximal elements
FirstMaxIndex(keys) ==
    CHOOSE i \in 1..Len(keys) :
        /\ \A j \in 1..Len(keys) : ~FracLess(keys[i], keys[j])
        /\ \A j \in 1..(i - 1) : FracLess(keys[j], keys[i])

\* a loop that recorded a raising member as a vote for UNKNOWN at 0.0
\* instead of skipping it
RECURSIVE CollectResultsCountingRaisers(_)
CollectResultsCountingRaisers(members) ==
    IF members = <<>> THEN <<>>
    ELSE LET m == Head(members)
             rest == CollectResultsCountingRaisers(Tail(members))
         IN  IF m.can_classify
             THEN << [doc_type |-> m.doc_type, confidence |-> m.confidence,
                      name |-> m.name] >> \o rest
             ELSE rest

\* the loop of classify: a member votes when it can classify and its
\* classify returns; a member that raises is skipped by the except clause
RECURSIVE CollectResults(_)
CollectResults(members) ==
    IF members = <<>> THEN <<>>
    ELSE LET m == Head(members)
             rest == CollectResults(Tail(members))
         IN  IF m.can_classify /\ m.behaviour = "return"
             THEN << [doc_type |-> m.doc_type, confidence |-> m.confidence,
                      name |-> m.name] >> \o rest
             ELSE rest

\* a max that kept the last of the maximal elements instead of the first
HighestConfidenceLastWins(results) ==
    LET best == results[CHOOSE i \in 1..Len(results) :
                          /\ \A j \in 1..Len(results) : results[j].confidence <= results[i].confidence
                          /\ \A j \in (i + 1)..Len(results) : results[j].confidence < results[i].confidence]
    IN  [doc_type |-> best.doc_type, confidence |-> Frac(best.confidence, 1)]

\* CompositeClassifier._highest_confidence
HighestConfidence(results) ==
    LET best == results[FirstMaxIndex([i \in 1..Len(results) |-> Frac(results[i].confidence, 1)])]
    IN  [doc_type |-> best.doc_type, confidence |-> Frac(best.confidence, 1)]

\* the keys of a dict / Counter filled in list order: the distinct types of
\* the results, in order of first occurrence
RECURSIVE TypesInOrder(_)
TypesInOrder(results) ==
    IF results = <<>> THEN <<>>
    ELSE LET init == TypesInOrder(SubSeq(results, 1, Len(results) - 1))
             t == results[Len(results)].doc_type
         IN  IF \E i \in 1..Len(init) : init[i] = t THEN init ELSE Append(init, t)

ResultsOfType(results, t) == SelectSeq(results, LAMBDA r : r.doc_type = t)

\* a variant that scores a type by the sum of its confidences
WeightedAverageBySum(results) ==
    LET types == TypesInOrder(results)
        total == [i \in 1..Len(types) |->
                    Frac(SumConf(ResultsOfType(results, types[i])), 1)]
        b == FirstMaxIndex(total)
    IN  [doc_type |-> types[b], confidence |-> total[b]]

\* CompositeClassifier._weighted_average
WeightedAverage(results) ==
    LET types == TypesInOrder(results)
        avg == [i \in 1..Len(types) |->
                  Frac(SumConf(ResultsOfType(results, types[i])),
                       Len(ResultsOfType(results, types[i])))]
        b == FirstMaxIndex(avg)
    IN  [doc_type |-> types[b], confidence |-> avg[b]]

\* a variant that breaks a tie by the highest confidence of all votes,
\* those for the tied types or not
VotingTieOverAll(results) ==
    LET types == TypesInOrder(results)
        votes == [i \in 1..Len(types) |-> Len(ResultsOfType(results, types[i]))]
        max_votes == CHOOSE v \in {votes[i] : i \in 1..Len(types)} :
                        \A i \in 1..Len(types) : votes[i] <= v
        tied_types == {types[i] : i \in {j \in 1..Len(types) : votes[j] = max_votes}}
    IN  IF Cardinality(tied_types) = 1
        THEN LET winner == CHOOSE t \in tied_types : TRUE
                 confs == ResultsOfType(results, winner)
             IN  [doc_type |-> winner, confidence |-> Frac(SumConf(confs), Len(confs))]
        ELSE HighestConfidence(results)

\* CompositeClassifier._voting
Voting(results) ==
    LET types == TypesInOrder(results)
        votes == [i \in 1..Len(types) |-> Len(ResultsOfType(results, types[i]))]
        max_votes == CHOOSE v \in {votes[i] : i \in 1..Len(types)} :
                        \A i \in 1..Len(types) : votes[i] <= v
        tied_types == {types[i] : i \in {j \in 1..Len(types) : votes[j] = max_votes}}
    IN  IF Cardinality(tied_types) = 1
        THEN LET winner == CHOOSE t \in tied_types : TRUE
                 confs == ResultsOfType(results, winner)
             IN  [doc_type |-> winner, confidence |-> Frac(SumConf(confs), Len(confs))]
        ELSE HighestConfidence(SelectSeq(results, LAMBDA r : r.doc_type \in tied_types))

\* CompositeClassifier.classify
CompositeClassify(members, strat) ==
    LET results == CollectResults(members)
    IN  IF results = <<>> THEN Return([doc_type |-> "UNKNOWN", confidence |-> Frac(0, 1)])
        ELSE IF strat = "highest_confidence" THEN Return(HighestConfidence(results))
        ELSE IF strat = "weighted_average" THEN Return(WeightedAverage(results))
        ELSE IF strat = "voting" THEN Return(Voting(results))
        ELSE Return(HighestConfidence(results))

\* what each configured member does on the document being classified
MemberName == "Classifier"

ClassifierMembers ==
    { [can_classify |-> FALSE, behaviour |-> "return", doc_type |-> "UNKNOWN",
       confidence |-> 0, name |-> MemberName],
      [can_classify |-> TRUE, behaviour |-> "raise", doc_type |-> "UNKNOWN",
       confidence |-> 0, name |-> MemberName] }
    \cup
    [can_classify : {TRUE}, behaviour : {"return"},
     doc_type : {"ACORD_126", "LOSS_RUN", "SOV"},
     confidence : {30, 50, 90}, name : {MemberName}]

Strategies == {"highest_confidence", "weighted_average", "voting", "unsupported"}

RECURSIVE SeqsUpTo(_, _)
SeqsUpTo(S, n) ==
    IF n = 0 THEN {<<>>}
    ELSE LET shorter == SeqsUpTo(S, n - 1)
         IN  shorter \cup {Append(q, x) : q \in shorter, x \in S}

\* a caller classifies the document with the configured composite
Classify ==
    /\ classification = NoCall
    /\ classification' = [kind |-> "call",
                          outcome |-> CompositeClassify(classifiers, strategy)]
    /\ UNCHANGED <<classifiers, strategy, regVars, kwVars, fusVars, repVars, pipVars, sovVars, docVars, batVars>>

(***************************************************************************)
(* C5: with strategy highest_confidence and at least one member that       *)
(* votes, classify returns the maximum of the voting members' confidences, *)
(* and on an exact tie for the maximum the type of the member listed       *)
(* earlier.                                                                *)
(***************************************************************************)
C5_HighestConfidenceFirstMax ==
    LET voters == {i \in 1..Len(classifiers) :
                      classifiers[i].can_classify /\ classifiers[i].behaviour = "return"}
        top == CHOOSE c \in {classifiers[i].confidence : i \in voters} :
                  \A i \in voters : classifiers[i].confidence <= c
        first == CHOOSE i \in voters :
                    /\ classifiers[i].confidence = top
                    /\ \A j \in voters : classifiers[j].confidence = top => i <= j
    IN  (classification.kind = "call" /\ strategy = "highest_confidence" /\ voters # {}) =>
            /\ classification.outcome.kind = "return"
            /\ classification.outcome.value.confidence = [num |-> top, den |-> 1]
            /\ classification.outcome.value.doc_type = classifiers[first].doc_type

\* two members tie for the maximum with different types, and the earlier wins
C5_TieReached ==
    /\ classification.kind = "call"
    /\ strategy = "highest_confidence"
    /\ \E i, j \in 1..Len(classifiers) :
          /\ i < j
          /\ classifiers[i].can_classify /\ classifiers[i].behaviour = "return"
          /\ classifiers[j].can_classify /\ classifiers[j].behaviour = "return"
          /\ classifiers[i].confidence = classifiers[j].confidence
          /\ classifiers[i].doc_type # classifiers[j].doc_type
          /\ \A k \in 1..Len(classifiers) : classifiers[k].confidence <= classifiers[i].confidence
          /\ \A k \in 1..(i - 1) : classifiers[k].confidence < classifiers[i].confidence
          /\ classification.outcome.value.doc_type = classifiers[i].doc_type

KEYWORD_PATTERNS ==
       "ACORD_126" :> [required |-> <<"acord 126", "commercial general liability">>,
          strong |-> <<"named insured", "general aggregate", "products completed operations", "each occurrence", "personal advertising injury">>,
          weak |-> <<"premises operations", "medical expense", "fire damage", "policy period">>]
    @@ "ACORD_125" :> [required |-> <<"acord 125", "commercial insurance">>,
          strong |-> <<"general liability", "automobile liability", "umbrella liability", "workers compensation">>,
          weak |-> <<"certificate holder", "policy number">>]
    @@ "ACORD_130" :> [required |-> <<"acord 130", "workers compensation">>,
          strong |-> <<"experience modification", "classification code", "payroll">>,
          weak |-> <<>>]
    @@ "ACORD_140" :> [required |-> <<"acord 140", "property section">>,
          strong |-> <<"building value", "contents value", "business income">>,
          weak |-> <<>>]
    @@ "LOSS_RUN" :> [required |-> <<"(loss run|claim history|loss history)">>,
          strong |-> <<"date of loss", "claim (number|amount|status)", "(paid|incurred|reserve)", "claimant", "description of loss">>,
          weak |-> <<"policy number", "policy period", "total (paid|incurred)">>]
    @@ "SOV" :> [required |-> <<"(schedule of values|statement of values|sov)">>,
          strong |-> <<"(building|property) value", "contents value", "(location|address)", "construction type", "occupancy", "total insured value">>,
          weak |-> <<"year built", "square feet", "number of stories">>]
    @@ "FINANCIAL_STATEMENT" :> [required |-> <<"(balance sheet|income statement|financial statement)">>,
          strong |-> <<"(assets|liabilities|equity)", "(revenue|expenses|net income)", "total assets", "total liabilities", "shareholders equity">>,
          weak |-> <<"fiscal year", "cash flow", "retained earnings">>]

KeywordTypeOrder ==
    << "ACORD_126", "ACORD_125", "ACORD_130", "ACORD_140", "LOSS_RUN", "SOV",
       "FINANCIAL_STATEMENT" >>

PhraseMatches ==
       "acord 126" :> {"acord 126"}
    @@ "commercial general liability" :> {"commercial general liability", "general liability"}
    @@ "named insured" :> {"named insured"}
    @@ "general aggregate" :> {"general aggregate"}
    @@ "policy period" :> {"policy period"}
    @@ "acord 125" :> {"acord 125"}
    @@ "general liability" :> {"general liability"}
    @@ "workers compensation" :> {"workers compensation"}
    @@ "policy number" :> {"policy number"}
    @@ "payroll" :> {"payroll"}
    @@ "loss run" :> {"(loss run|claim history|loss history)"}
    @@ "claimant" :> {"claimant"}
    @@ "total paid" :> {"(paid|incurred|reserve)", "total (paid|incurred)"}
    @@ "schedule of values" :> {"(schedule of values|statement of values|sov)"}
    @@ "building value" :> {"(building|property) value", "building value"}
    @@ "contents value" :> {"contents value"}
    @@ "year built" :> {"year built"}
    @@ "balance sheet" :> {"(balance sheet|income statement|financial statement)"}
    @@ "total assets" :> {"(assets|liabilities|equity)", "total assets"}
    @@ "acord 140" :> {"acord 140"}
    @@ "lorem ipsum" :> {}

Vocabulary == DOMAIN PhraseMatches

\* CONFIDENCE_WEIGHTS, in hundredths
WeightRequired == 40
WeightStrong == 10
WeightWeak == 3

\* re.search(pattern, text, re.IGNORECASE)
Search(pattern, text) == \E phrase \in text : pattern \in PhraseMatches[phrase]

\* sum(1 for pattern in patterns if re.search(pattern, text))
Found(patterns, text) ==
    Cardinality({i \in 1..Len(patterns) : Search(patterns[i], text)})

\* a scoring without the early return on zero required matches
ScoreWithoutGate(text, doc_type) ==
    LET patterns == Get(KEYWORD_PATTERNS, doc_type,
                        [required |-> <<>>, strong |-> <<>>, weak |-> <<>>])
    IN  Found(patterns.required, text) * WeightRequired
        + Found(patterns.strong, text) * WeightStrong
        + Found(patterns.weak, text) * WeightWeak

\* KeywordClassifier._score_document_type
ScoreDocumentType(text, doc_type) ==
    LET patterns == Get(KEYWORD_PATTERNS, doc_type,
                        [required |-> <<>>, strong |-> <<>>, weak |-> <<>>])
        required_found == Found(patterns.required, text)
    IN  IF patterns.required # <<>> /\ required_found = 0
        THEN 0
        ELSE required_found * WeightRequired
             + Found(patterns.strong, text) * WeightStrong
             + Found(patterns.weak, text) * WeightWeak

Min(a, b) == IF a <= b THEN a ELSE b

\* KeywordClassifier.classify
KeywordClassify(text) ==
    IF text = {} THEN [doc_type |-> "UNKNOWN", confidence |-> 0]
    ELSE LET scored == SelectSeq(KeywordTypeOrder, LAMBDA t : ScoreDocumentType(text, t) > 0)
         IN  IF scored = <<>> THEN [doc_type |-> "UNKNOWN", confidence |-> 0]
             ELSE LET b == FirstMaxIndex([i \in 1..Len(scored) |->
                                            Frac(ScoreDocumentType(text, scored[i]), 1)])
                  IN  [doc_type |-> scored[b],
                       confidence |-> Min(100, ScoreDocumentType(text, scored[b]))]

\* a caller classifies a document holding raw_text with the KeywordClassifier
KeywordClassifyCall ==
    /\ keyword_result = NoCall
    /\ keyword_result' =
          [kind |-> "call",
           scores |-> [t \in DOMAIN KEYWORD_PATTERNS |-> ScoreDocumentType(kw_text, t)],
           outcome |-> KeywordClassify(kw_text)]
    /\ UNCHANGED <<kw_text, regVars, cmpVars, fusVars, repVars, pipVars, sovVars, docVars, batVars>>

(***************************************************************************)
(* C7: gate rule.  For every text and every type with keyword patterns, if *)
(* no required pattern of the type matches the text, the type's score is   *)
(* exactly 0, whatever its strong and weak matches, and the type is not    *)
(* the one returned.                                                       *)
(***************************************************************************)
C7_GateRule ==
    keyword_result.kind = "call" =>
        \A t \in DOMAIN KEYWORD_PATTERNS :
            (\A i \in 1..Len(KEYWORD_PATTERNS[t].required) :
                ~Search(KEYWORD_PATTERNS[t].required[i], kw_text))
            => /\ keyword_result.scores[t] = 0
               /\ keyword_result.outcome.doc_type # t

\* a type has strong or weak matches but no required match, while another
\* type is returned
C7_GatedTypeReached ==
    /\ keyword_result.kind = "call"
    /\ keyword_result.outcome.doc_type # "UNKNOWN"
    /\ \E t \in DOMAIN KEYWORD_PATTERNS :
          /\ \A i \in 1..Len(KEYWORD_PATTERNS[t].required) :
                ~Search(KEYWORD_PATTERNS[t].required[i], kw_text)
          /\ Found(KEYWORD_PATTERNS[t].strong, kw_text) > 0
          /\ Found(KEYWORD_PATTERNS[t].weak, kw_text) > 0
          /\ keyword_result.scores[t] = 0

(***************************************************************************)
(* strategies/fusion_strategy.py                                           *)
(* Text values are sequences of characters, so that str.strip() and        *)
(* str.lower() are computed; an absent key and None read as the empty      *)
(* value of the field's type.                                              *)
(***************************************************************************)
\* str.lower(), character by character
LowerChar(c) == IF c = "A" THEN "a" ELSE IF c = "Z" THEN "z" ELSE c
Lower(str) == [i \in 1..Len(str) |-> LowerChar(str[i])]

\* str.strip(): leading and trailing whitespace removed
RECURSIVE Strip(_)
Strip(str) ==
    IF str = <<>> THEN <<>>
    ELSE IF Head(str) = " " THEN Strip(Tail(str))
    ELSE IF str[Len(str)] = " " THEN Strip(SubSeq(str, 1, Len(str) - 1))
    ELSE str

\* FusionStrategy._organize_by_type: organized[doc_type], in list order
Organized(results, doc_type) ==
    SelectSeq(results, LAMBDA p : p.document.document_type = doc_type)

\* the keys of organized, in insertion order
OrganizedTypes(results) ==
    TypesInOrder([i \in 1..Len(results) |-> [doc_type |-> results[i].document.document_type]])

Successful(pairs) == SelectSeq(pairs, LAMBDA p : p.result.success)

\* acord_type.value.lower()
FormKey(acord_type) ==
    CASE acord_type = "ACORD_126" -> "acord_126"
      [] acord_type = "ACORD_125" -> "acord_125"
      [] acord_type = "ACORD_130" -> "acord_130"
      [] acord_type = "ACORD_140" -> "acord_140"

AcordTypes == <<"ACORD_126", "ACORD_125", "ACORD_130", "ACORD_140">>

\* FusionStrategy._merge_acord_forms: one entry per form type, the last
\* successful result of the type; None (here the empty dict) when there is none
MergeAcordForms(cfg, results) ==
    LET present == {t \in {AcordTypes[i] : i \in 1..Len(AcordTypes)} :
                        Successful(Organized(results, t)) # <<>>}
        last(t) == LET ok == Successful(Organized(results, t)) IN ok[Len(ok)]
        entry(t) == IF cfg.include_source_tracking
                    THEN ("_source" :> [file_name |-> last(t).document.file_name,
                                        document_type |-> FormKey(t),
                                        confidence |-> last(t).result.confidence])
                         @@ last(t).result.data
                    ELSE last(t).result.data
    IN  [k \in {FormKey(t) : t \in present} |->
            entry(CHOOSE t \in present : FormKey(t) = k)]

\* claim.get('claim_number')
ClaimNumber(claim) == Get(claim, "claim_number", "")

\* a deduplication that also dropped the claims without a claim_number
RECURSIVE DeduplicateClaimsDroppingUnnumbered(_, _)
DeduplicateClaimsDroppingUnnumbered(claims, seen_numbers) ==
    IF claims = <<>> THEN <<>>
    ELSE LET claim == Head(claims)
             claim_number == ClaimNumber(claim)
         IN  IF claim_number # "" /\ claim_number \notin seen_numbers
             THEN <<claim>> \o DeduplicateClaimsDroppingUnnumbered(Tail(claims),
                                    seen_numbers \cup {claim_number})
             ELSE DeduplicateClaimsDroppingUnnumbered(Tail(claims), seen_numbers)

\* FusionStrategy._deduplicate_claims
RECURSIVE DeduplicateClaimsFrom(_, _)
DeduplicateClaimsFrom(claims, seen_numbers) ==
    IF claims = <<>> THEN <<>>
    ELSE LET claim == Head(claims)
             claim_number == ClaimNumber(claim)
         IN  IF claim_number # "" /\ claim_number \notin seen_numbers
             THEN <<claim>> \o DeduplicateClaimsFrom(Tail(claims), seen_numbers \cup {claim_number})
             ELSE IF claim_number = ""
             THEN <<claim>> \o DeduplicateClaimsFrom(Tail(claims), seen_numbers)
             ELSE DeduplicateClaimsFrom(Tail(claims), seen_numbers)

DeduplicateClaims(claims) == DeduplicateClaimsFrom(claims, {})

\* prop.get('location_number') or prop.get('address')
PropertyLocation(prop) ==
    IF Get(prop, "location_number", "") # "" THEN prop.location_number
    ELSE Get(prop, "address", "")

\* FusionStrategy._deduplicate_properties
RECURSIVE DeduplicatePropertiesFrom(_, _)
DeduplicatePropertiesFrom(properties, seen_locations) ==
    IF properties = <<>> THEN <<>>
    ELSE LET prop == Head(properties)
             location == PropertyLocation(prop)
         IN  IF location # "" /\ location \notin seen_locations
             THEN <<prop>> \o DeduplicatePropertiesFrom(Tail(properties), seen_locations \cup {location})
             ELSE IF location = ""
             THEN <<prop>> \o DeduplicatePropertiesFrom(Tail(properties), seen_locations)
             ELSE DeduplicatePropertiesFrom(Tail(properties), seen_locations)

DeduplicateProperties(properties) == DeduplicatePropertiesFrom(properties, {})

\* all_xs.extend(data.get(key, [])) over the successful results, in order
RECURSIVE ConcatItems(_, _)
ConcatItems(pairs, key) ==
    IF pairs = <<>> THEN <<>>
    ELSE Get(Head(pairs).result.data, key, <<>>) \o ConcatItems(Tail(pairs), key)

\* total += data.get('totals', {}).get(key, 0.0) over the successful results
RECURSIVE SumTotals(_, _)
SumTotals(pairs, key) ==
    IF pairs = <<>> THEN 0
    ELSE Get(Get(Head(pairs).result.data, "totals", <<>>), key, 0) + SumTotals(Tail(pairs), key)

\* None, which the callers only test for truth, reads as the empty dict
NoSection == <<>>

\* FusionStrategy._merge_loss_runs
MergeLossRuns(cfg, results) ==
    IF Organized(results, "LOSS_RUN") = <<>> THEN NoSection
    ELSE LET ok == Successful(Organized(results, "LOSS_RUN"))
             unique_claims == DeduplicateClaims(ConcatItems(ok, "claims"))
             merged == [claims |-> unique_claims,
                        claim_count |-> Len(unique_claims),
                        totals |-> [total_paid |-> SumTotals(ok, "total_paid"),
                                    total_incurred |-> SumTotals(ok, "total_incurred")]]
             sources == [i \in 1..Len(ok) |->
                            [file_name |-> ok[i].document.file_name,
                             claim_count |-> Len(Get(ok[i].result.data, "claims", <<>>)),
                             confidence |-> ok[i].result.confidence]]
         IN  IF cfg.include_source_tracking THEN ("_sources" :> sources) @@ merged ELSE merged

\* FusionStrategy._merge_sovs
MergeSovs(cfg, results) ==
    IF Organized(results, "SOV") = <<>> THEN NoSection
    ELSE LET ok == Successful(Organized(results, "SOV"))
             unique_properties == DeduplicateProperties(ConcatItems(ok, "properties"))
             merged == [properties |-> unique_properties,
                        property_count |-> Len(unique_properties),
                        totals |-> [total_insured_value |-> SumTotals(ok, "total_insured_value")]]
             sources == [i \in 1..Len(ok) |->
                            [file_name |-> ok[i].document.file_name,
                             property_count |-> Len(Get(ok[i].result.data, "properties", <<>>)),
                             confidence |-> ok[i].result.confidence]]
         IN  IF cfg.include_source_tracking THEN ("_sources" :> sources) @@ merged ELSE merged

\* the loop of _merge_financial_statements: the first result that is
\* successful and strictly more confident than every one before it wins
RECURSIVE BestFinancial(_, _, _)
BestFinancial(pairs, best_result, best_confidence) ==
    IF pairs = <<>> THEN best_result
    ELSE IF Head(pairs).result.success /\ Head(pairs).result.confidence > best_confidence
    THEN BestFinancial(Tail(pairs), <<Head(pairs)>>, Head(pairs).result.confidence)
    ELSE BestFinancial(Tail(pairs), best_result, best_confidence)

\* FusionStrategy._merge_financial_statements
MergeFinancialStatements(cfg, results) ==
    LET best == BestFinancial(Organized(results, "FINANCIAL_STATEMENT"), <<>>, 0)
    IN  IF best = <<>> THEN NoSection
        ELSE IF cfg.include_source_tracking
        THEN ("_source" :> [file_name |-> best[1].document.file_name,
                            confidence |-> best[1].result.confidence])
             @@ best[1].result.data
        ELSE best[1].result.data

\* FusionStrategy._merge_supplemental
MergeSupplemental(results) ==
    LET supp == Organized(results, "SUPPLEMENTAL")
    IN  [i \in 1..Len(supp) |->
            LET base == [file_name |-> supp[i].document.file_name,
                         supplemental_type |-> Get(supp[i].result.data, "supplemental_type", "generic"),
                         extracted_data |-> Get(supp[i].result.data, "data", <<>>)]
            IN  IF supp[i].result.success
                THEN [status |-> "processed", confidence |-> supp[i].result.confidence] @@ base
                ELSE [status |-> "failed", errors |-> supp[i].result.errors] @@ base]

\* key + '_source'
SourceKey(key) ==
    CASE key = "name" -> "name_source"
      [] key = "mailing_address" -> "mailing_address_source"
      [] key = "address" -> "address_source"
      [] key = "license_number" -> "license_number_source"

\* FusionStrategy._merge_fields (the body, once the arguments are bound)
MergeFields(cfg, target, source, source_name, priority) ==
    LET given == {k \in DOMAIN source : source[k] # <<>>}
        fills(k) == k \notin DOMAIN target \/ target[k] = <<>>
        overrides(k) == ~fills(k) /\ (priority = "high" \/ cfg.conflict_resolution = "primary_source")
        written == {k \in given : fills(k) \/ overrides(k)}
        tracked == IF cfg.include_source_tracking
                   THEN {k \in written : overrides(k) \/ SourceKey(k) \notin DOMAIN target}
                   ELSE {}
    IN  [k \in DOMAIN target \cup written \cup {SourceKey(x) : x \in tracked} |->
            IF k \in written THEN source[k]
            ELSE IF \E x \in tracked : SourceKey(x) = k THEN source_name
            ELSE target[k]]

\* the binding of a call self._merge_fields(target, source, **kwargs) to the
\* parameters (target, source, source_name='unknown', priority='normal'):
\* a keyword that names a parameter already bound by position is a TypeError
MergeFieldsCall(cfg, target, source, kwargs) ==
    IF "source" \in DOMAIN kwargs \/ "target" \in DOMAIN kwargs
    THEN Raise("TypeError", "_merge_fields() got multiple values for argument 'source'")
    ELSE Return(MergeFields(cfg, target, source,
                            Get(kwargs, "source_name", "unknown"),
                            Get(kwargs, "priority", "normal")))

RECURSIVE ApplyMergeCalls(_, _, _)
ApplyMergeCalls(cfg, applicant, merge_calls) ==
    IF merge_calls = <<>> THEN Return(applicant)
    ELSE LET r == MergeFieldsCall(cfg, applicant, Head(merge_calls).source, Head(merge_calls).kwargs)
         IN  IF r.kind = "raise" THEN r
             ELSE ApplyMergeCalls(cfg, r.value, Tail(merge_calls))

\* FusionStrategy._merge_applicant_info
MergeApplicantInfo(cfg, results) ==
    LET acord == Successful(Organized(results, "ACORD_126")) \o Successful(Organized(results, "ACORD_125"))
        with_info == SelectSeq(acord, LAMBDA p : "applicant_information" \in DOMAIN p.result.data)
        acord_calls == [i \in 1..Len(with_info) |->
                          [source |-> with_info[i].result.data.applicant_information,
                           kwargs |-> [source |-> with_info[i].document.file_name]]]
        licenses == SelectSeq(Successful(Organized(results, "SUPPLEMENTAL")),
                        LAMBDA p : Get(p.result.data, "supplemental_type", "") = "driver_license")
        license_calls == [i \in 1..Len(licenses) |->
                          [source |-> Get(licenses[i].result.data, "data", <<>>),
                           kwargs |-> [source |-> licenses[i].document.file_name,
                                       priority |-> "low"]]]
    IN  ApplyMergeCalls(cfg, <<>>, acord_calls \o license_calls)

\* a section is stored only when it is truthy
Section(key, value) ==
    IF DOMAIN value = {} THEN <<>> ELSE (key :> value)

Now == "utcnow"

\* FusionStrategy._merge_data
MergeData(cfg, results, document_group) ==
    LET fused == [submission_id |-> document_group.group_id,
                  submission_date |-> Now,
                  document_count |-> Len(document_group.documents)]
                 @@ Section("application", MergeAcordForms(cfg, results))
                 @@ Section("claims_history", MergeLossRuns(cfg, results))
                 @@ Section("property_schedule", MergeSovs(cfg, results))
                 @@ Section("financial_information", MergeFinancialStatements(cfg, results))
                 @@ Section("supplemental_documents", MergeSupplemental(results))
        applicant == MergeApplicantInfo(cfg, results)
    IN  IF ~cfg.enable_cross_validation THEN Return(fused)
        ELSE IF applicant.kind = "raise" THEN applicant
        ELSE Return(("applicant" :> applicant.value) @@ fused)

\* the key of fused_data under which _merge_data stores a document type
SectionOf(document_type) ==
    CASE document_type \in {"ACORD_126", "ACORD_125", "ACORD_130", "ACORD_140"} -> "application"
      [] document_type = "LOSS_RUN" -> "claims_history"
      [] document_type = "SOV" -> "property_schedule"
      [] document_type = "FINANCIAL_STATEMENT" -> "financial_information"
      [] document_type = "SUPPLEMENTAL" -> "supplemental_documents"
      [] OTHER -> "none"

\* a or b or c over text values
Or3(a, b, c) == IF a # <<>> THEN a ELSE IF b # <<>> THEN b ELSE c

\* the names list of _extract_all_names, as the set the caller makes of it
ExtractAllNames(results) ==
    LET ok == Successful(results)
        name(data) == Or3(Get(Get(data, "applicant_information", <<>>), "name", <<>>),
                          Get(data, "insured_name", <<>>),
                          Get(Get(data, "policy_information", <<>>), "insured_name", <<>>))
    IN  {Lower(Strip(name(ok[i].result.data))) :
            i \in {j \in 1..Len(ok) : name(ok[j].result.data) # <<>>}}

\* the policy_numbers list of _extract_all_policy_numbers, as a set
ExtractAllPolicyNumbers(results) ==
    LET ok == Successful(results)
        policy_no(data) == Or3(Get(Get(data, "policy_information", <<>>), "policy_number", <<>>),
                               Get(data, "policy_number", <<>>),
                               Get(Get(data, "prior_insurance", <<>>), "prior_policy_number", <<>>))
    IN  {Strip(policy_no(ok[i].result.data)) :
            i \in {j \in 1..Len(ok) : policy_no(ok[j].result.data) # <<>>}}

\* FusionStrategy._validate_dates: the form keys whose coverage block has
\* its effective date after its expiration date
ValidateDates(fused_data) ==
    LET application == Get(fused_data, "application", <<>>)
        coverage(k) == Get(application[k], "coverage_information", <<>>)
    IN  {k \in DOMAIN application :
            /\ Get(coverage(k), "effective_date", 0) # 0
            /\ Get(coverage(k), "expiration_date", 0) # 0
            /\ coverage(k).effective_date > coverage(k).expiration_date}

\* FusionStrategy._cross_validate: the warnings, each with the values it names
CrossValidate(fused_data, results) ==
    LET names == ExtractAllNames(results)
        policy_numbers == ExtractAllPolicyNumbers(results)
    IN  (IF Cardinality(names) > 1
         THEN {[warning |-> "Applicant name inconsistency found", values |-> names]} ELSE {})
        \cup
        (IF Cardinality(policy_numbers) > 1
         THEN {[warning |-> "Multiple policy numbers found", values |-> policy_numbers]} ELSE {})
        \cup
        {[warning |-> "Effective date is after expiration date", values |-> {<<k>>}] :
            k \in ValidateDates(fused_data)}

\* FusionStrategy._build_fusion_metadata
BuildFusionMetadata(cfg, document_group, results) ==
    [group_id |-> document_group.group_id,
     total_documents |-> Len(document_group.documents),
     documents_by_type |-> [t \in {results[i].document.document_type : i \in 1..Len(results)} |->
                               Len(Organized(results, t))],
     successful_extractions |-> Len(Successful(results)),
     failed_extractions |-> Len(results) - Len(Successful(results)),
     fusion_timestamp |-> Now,
     cross_validation_enabled |-> cfg.enable_cross_validation,
     conflict_resolution_method |-> cfg.conflict_resolution]

RECURSIVE SumResultConfidence(_)
SumResultConfidence(pairs) ==
    IF pairs = <<>> THEN 0 ELSE Head(pairs).result.confidence + SumResultConfidence(Tail(pairs))

\* an average taken over all the results instead of the successful ones
CalculateFusionConfidenceOverAll(results) ==
    LET ok == Successful(results)
        unique_types == Cardinality({ok[i].document.document_type : i \in 1..Len(ok)})
        bonus == Min(10, unique_types * 2)
        total == Frac(SumResultConfidence(ok) + bonus * Len(results), Len(results))
    IN  IF results = <<>> \/ ok = <<>> THEN Frac(0, 1)
        ELSE IF FracLess(Frac(100, 1), total) THEN Frac(100, 1) ELSE total

\* FusionStrategy._calculate_fusion_confidence, as a fraction of hundredths
CalculateFusionConfidence(results) ==
    LET ok == Successful(results)
        unique_types == Cardinality({ok[i].document.document_type : i \in 1..Len(ok)})
        bonus == Min(10, unique_types * 2)
        total == Frac(SumResultConfidence(ok) + bonus * Len(ok), Len(ok))
    IN  IF results = <<>> \/ ok = <<>> THEN Frac(0, 1)
        ELSE IF FracLess(Frac(100, 1), total) THEN Frac(100, 1) ELSE total

\* a fuse without the test for an empty list of individual results
FuseResultsWithoutEmptyTest(cfg, document_group, results) ==
    LET merged == MergeData(cfg, results, document_group)
    IN  IF merged.kind = "raise"
        THEN ExtractionResult(FALSE, <<>>, Frac(0, 1), {},
                << [prefix |-> "Fusion failed", message |-> merged.message] >>)
        ELSE ExtractionResult(TRUE,
                ("fusion_metadata" :> BuildFusionMetadata(cfg, document_group, results)) @@ merged.value,
                CalculateFusionConfidence(results),
                IF cfg.enable_cross_validation
                THEN CrossValidate(merged.value, results) ELSE {},
                <<>>)

\* FusionStrategy.fuse, from step 1's results on
FuseResults(cfg, document_group, results) ==
    IF results = <<>>
    THEN ExtractionResult(FALSE, <<>>, Frac(0, 1), {}, <<"No data extracted from any document">>)
    ELSE LET merged == MergeData(cfg, results, document_group)
         IN  IF merged.kind = "raise"
             THEN ExtractionResult(FALSE, <<>>, Frac(0, 1), {},
                     << [prefix |-> "Fusion failed", message |-> merged.message] >>)
             ELSE ExtractionResult(TRUE,
                     ("fusion_metadata" :> BuildFusionMetadata(cfg, document_group, results)) @@ merged.value,
                     CalculateFusionConfidence(results),
                     IF cfg.enable_cross_validation
                     THEN CrossValidate(merged.value, results) ELSE {},
                     <<>>)

\* one iteration of the loop of FusionStrategy._extract_all
ExtractOne(reg, document) ==
    LET r == FactoryExtract(reg, document)
    IN  IF r.kind = "return" THEN [document |-> document, result |-> r.value]
        ELSE [document |-> document,
              result |-> ExtractionResult(FALSE, [file_name |-> document.file_name], 0, <<>>,
                            << [prefix |-> "Extraction failed", message |-> r.message] >>)]

(***************************************************************************)
(* Fusion: the documents of a group, each with what its extractor makes    *)
(* of it, and the run of fuse over them                                    *)
(***************************************************************************)
\* LossRunExtractor._calculate_totals
RECURSIVE SumField(_, _)
SumField(items, key) ==
    IF items = <<>> THEN 0 ELSE Get(Head(items), key, 0) + SumField(Tail(items), key)

\* the data of a successful LossRunExtractor._extract_from_tables
LossRunData(claims, policy_info) ==
    [document_type |-> "loss_run", policy_information |-> policy_info,
     claims |-> claims, claim_count |-> Len(claims),
     totals |-> [total_paid |-> SumField(claims, "paid"),
                 total_incurred |-> SumField(claims, "incurred"),
                 total_claims |-> Len(claims)]]

Ok(data, confidence) == [kind |-> "ok", data |-> data, confidence |-> confidence]

Content(document_type, tables, text, out) ==
    [document_type |-> document_type, tables |-> tables, raw_text |-> text,
     file_extension |-> ".pdf", out |-> out]

ClaimA1 == [claim_number |-> "A1", paid |-> 100, incurred |-> 120]
ClaimA1Again == [claim_number |-> "A1", paid |-> 150, incurred |-> 150]
ClaimB2 == [claim_number |-> "B2", paid |-> 70, incurred |-> 70]
ClaimUnnumbered == [date_of_loss |-> "2020-01-01", paid |-> 50, incurred |-> 60]

\* what the documents of a group can hold
DocumentContents ==
    { Content("ACORD_126", <<>>, "text", [kind |-> "fail"]),
      Content("ACORD_125", <<>>, "text",
              Ok([document_type |-> "acord_125",
                  applicant_information |-> [name |-> <<"a">>, mailing_address |-> <<"m">>],
                  prior_insurance |-> [prior_policy_number |-> <<"A">>]], 80)),
      Content("ACORD_125", <<>>, "text",
              Ok([document_type |-> "acord_125",
                  applicant_information |-> [name |-> <<>>, mailing_address |-> <<>>]], 60)),
      Content("ACORD_125", <<>>, "", [kind |-> "fail"]),
      Content("ACORD_130", <<>>, "text",
              Ok([document_type |-> "acord_130",
                  coverage_information |-> [effective_date |-> 2, expiration_date |-> 1]], 80)),
      Content("ACORD_140", <<>>, "text",
              Ok([document_type |-> "acord_140", insured_name |-> <<"A", " ">>], 80)),
      Content("ACORD_140", <<>>, "text",
              Ok([document_type |-> "acord_140", insured_name |-> <<"z">>], 80)),
      Content("LOSS_RUN", <<"table">>, "text",
              Ok(LossRunData(<<ClaimA1>>,
                             [insured_name |-> <<"a">>, policy_number |-> <<"a">>]), 70)),
      Content("LOSS_RUN", <<"table">>, "text",
              Ok(LossRunData(<<ClaimA1Again, ClaimUnnumbered, ClaimB2>>,
                             [insured_name |-> <<"A">>, policy_number |-> <<"A">>]), 90)),
      Content("LOSS_RUN", <<"table">>, "",
              Ok(LossRunData(<<ClaimUnnumbered, ClaimB2, ClaimA1>>, <<>>), 90)),
      Content("LOSS_RUN", <<"table">>, "text",
              Ok(LossRunData(<<ClaimB2>>,
                             [insured_name |-> <<"z">>, policy_number |-> <<"z">>]), 50)),
      Content("LOSS_RUN", <<"table">>, "text", [kind |-> "fail"]),
      Content("LOSS_RUN", <<"table">>, "text", [kind |-> "raise"]),
      Content("LOSS_RUN", <<>>, "", [kind |-> "fail"]),
      Content("SOV", <<"table">>, "",
              Ok([document_type |-> "sov",
                  properties |-> << [location_number |-> "1", building_value |-> 1000] >>,
                  totals |-> [total_insured_value |-> 1000]], 80)),
      Content("SOV", <<"table">>, "",
              Ok([document_type |-> "sov",
                  properties |-> << [location_number |-> "1", building_value |-> 2000],
                                    [address |-> "x", building_value |-> 500] >>,
                  totals |-> [total_insured_value |-> 2500]], 100)),
      Content("SOV", <<"table">>, "",
              Ok([document_type |-> "sov",
                  properties |-> << [address |-> "1", building_value |-> 700] >>,
                  totals |-> [total_insured_value |-> 700]], 60)),
      Content("FINANCIAL_STATEMENT", <<"table">>, "",
              Ok([document_type |-> "financial_statement", fiscal_year |-> 2020], 60)),
      Content("FINANCIAL_STATEMENT", <<"table">>, "",
              Ok([document_type |-> "financial_statement", fiscal_year |-> 2021], 90)),
      Content("FINANCIAL_STATEMENT", <<"table">>, "",
              Ok([document_type |-> "financial_statement", fiscal_year |-> 2019], 0)),
      Content("FINANCIAL_STATEMENT", <<"table">>, "", [kind |-> "fail"]),
      Content("SUPPLEMENTAL", <<>>, "text",
              Ok([document_type |-> "supplemental", supplemental_type |-> "driver_license",
                  data |-> [name |-> <<"z">>, address |-> <<"x">>]], 70)),
      Content("SUPPLEMENTAL", <<>>, "",
              Ok([document_type |-> "supplemental", supplemental_type |-> "photo",
                  data |-> <<>>], 50)),
      Content("SUPPLEMENTAL", <<>>, "", [kind |-> "raise"]),
      Content("GENERIC", <<>>, "text", [kind |-> "fail"]),
      Content("UNKNOWN", <<>>, "", [kind |-> "fail"]) }

\* Document.file_name of the i-th document of the group
FileName(i) == <<"file", i>>

Configurations ==
    [enable_cross_validation : BOOLEAN,
     conflict_resolution : {"highest_confidence", "most_recent", "primary_source"},
     include_source_tracking : BOOLEAN]

\* the process-wide extractor_registry, after its default registrations
DefaultRegistry == RegisterDefaultExtractors({})

\* FusionStrategy() with its default arguments, and a group without documents
DefaultConfiguration ==
    [enable_cross_validation |-> TRUE, conflict_resolution |-> "highest_confidence",
     include_source_tracking |-> TRUE]
EmptyGroup == [group_id |-> "submission", documents |-> <<>>]

\* a variant of the loop that gives up after the first failed extraction
NextToExtractFailFast(document_group, results) ==
    IF results # <<>> /\ ~results[Len(results)].result.success THEN 0
    ELSE IF Len(results) < Len(document_group.documents) THEN Len(results) + 1
    ELSE 0

\* the for loop of _extract_all: the position of the document it extracts
\* next, 0 once it has gone through the whole list
NextToExtract(document_group, results) ==
    IF Len(results) < Len(document_group.documents) THEN Len(results) + 1 ELSE 0

\* a variant in which an extraction records its outcome as the document's status
DocumentMarkedByExtract(document, result) ==
    [document EXCEPT !.status = IF result.success THEN "EXTRACTED" ELSE "FAILED"]

\* the Document after ExtractorFactory.extract(document): the factory and the
\* extractors read the document and write only into the result
DocumentAfterExtract(document, result) == document

\* _extract_all: the next document of the group is extracted
ExtractNext ==
    /\ pc = "extract_all"
    /\ NextToExtract(group, individual_results) # 0
    /\ LET i == NextToExtract(group, individual_results)
           pair == ExtractOne(DefaultRegistry, group.documents[i])
           after == DocumentAfterExtract(pair.document, pair.result)
       IN  /\ individual_results' = Append(individual_results, [pair EXCEPT !.document = after])
           /\ group' = [group EXCEPT !.documents[i] = after]
    /\ extract_calls' = extract_calls + 1
    /\ UNCHANGED <<config, pc, fuse_result, regVars, cmpVars, kwVars, repVars, pipVars, sovVars, docVars, batVars>>

\* fuse, once _extract_all has returned: organize, merge, validate, return
FinishFuse ==
    /\ pc = "extract_all"
    /\ NextToExtract(group, individual_results) = 0
    /\ fuse_result' = [kind |-> "call",
                       outcome |-> Return(FuseResults(config, group, individual_results))]
    /\ pc' = "done"
    /\ UNCHANGED <<group, config, individual_results, extract_calls, regVars, cmpVars, kwVars, repVars, pipVars, sovVars, docVars, batVars>>

(***************************************************************************)
(* C1: partial success.  When the extraction of one document of a group    *)
(* fails and that of another succeeds, fuse returns success=true and the   *)
(* merged data holds the section of every successful document's type.      *)
(***************************************************************************)
C1_PartialSuccess ==
    (/\ fuse_result.kind = "call"
     /\ \E i, j \in 1..Len(individual_results) :
           /\ ~individual_results[i].result.success
           /\ individual_results[j].result.success)
    => /\ fuse_result.outcome.kind = "return"
       /\ fuse_result.outcome.value.success
       /\ \A j \in 1..Len(individual_results) :
             (/\ individual_results[j].result.success
              /\ SectionOf(individual_results[j].document.document_type) # "none")
             => SectionOf(individual_results[j].document.document_type)
                   \in DOMAIN fuse_result.outcome.value.data

C8_FirstClaimPerNumberKept ==
    LET ok == SelectSeq(individual_results,
                  LAMBDA p : p.document.document_type = "LOSS_RUN" /\ p.result.success)
        all == ConcatItems(ok, "claims")
        number(i) == IF "claim_number" \in DOMAIN all[i] THEN all[i].claim_number ELSE ""
        kept == {i \in 1..Len(all) :
                    number(i) = "" \/ \A j \in 1..(i - 1) : number(j) # number(i)}
        nth(k) == CHOOSE i \in kept : Cardinality({j \in kept : j <= i}) = k
    IN  (/\ fuse_result.kind = "call"
         /\ fuse_result.outcome.value.success
         /\ \E i \in 1..Len(individual_results) :
               individual_results[i].document.document_type = "LOSS_RUN")
        => /\ "claims_history" \in DOMAIN fuse_result.outcome.value.data
           /\ Len(fuse_result.outcome.value.data.claims_history.claims) = Cardinality(kept)
           /\ \A k \in 1..Cardinality(kept) :
                 fuse_result.outcome.value.data.claims_history.claims[k] = all[nth(k)]

\* two loss runs carry claim A1 with different amounts, the merged list
\* holds the first of them only and keeps a claim without a claim_number
C8_DuplicateAcrossDocuments ==
    /\ fuse_result.kind = "call"
    /\ fuse_result.outcome.value.success
    /\ Len(individual_results) = 2
    /\ individual_results[1].result.success
    /\ individual_results[2].result.success
    /\ individual_results[1].document.document_type = "LOSS_RUN"
    /\ individual_results[2].document.document_type = "LOSS_RUN"
    /\ Get(individual_results[1].result.data, "claims", <<>>) = <<ClaimA1>>
    /\ Get(individual_results[2].result.data, "claims", <<>>)
          = <<ClaimA1Again, ClaimUnnumbered, ClaimB2>>
    /\ fuse_result.outcome.value.data.claims_history.claims = <<ClaimA1, ClaimUnnumbered, ClaimB2>>

(***************************************************************************)
(* C9: with cross-validation enabled, under every conflict_resolution,     *)
(* fuse yields a merged applicant in which each field that an ACORD        *)
(* 126/125 form supplied holds a value supplied by such a form, never the  *)
(* driver-license value.                                                   *)
(***************************************************************************)
C9_LicenseNeverOverwritesAcord ==
    LET acord == SelectSeq(individual_results,
                    LAMBDA p : /\ p.document.document_type \in {"ACORD_126", "ACORD_125"}
                               /\ p.result.success
                               /\ "applicant_information" \in DOMAIN p.result.data)
        supplied(k) == {acord[i].result.data.applicant_information[k] :
                           i \in {j \in 1..Len(acord) :
                                     /\ k \in DOMAIN acord[j].result.data.applicant_information
                                     /\ acord[j].result.data.applicant_information[k] # <<>>}}
        fields == UNION {DOMAIN acord[i].result.data.applicant_information : i \in 1..Len(acord)}
    IN  (/\ fuse_result.kind = "call"
         /\ config.enable_cross_validation
         /\ \E k \in fields : supplied(k) # {})
        => /\ fuse_result.outcome.value.success
           /\ "applicant" \in DOMAIN fuse_result.outcome.value.data
           /\ \A k \in fields :
                 supplied(k) # {} =>
                    /\ k \in DOMAIN fuse_result.outcome.value.data.applicant
                    /\ fuse_result.outcome.value.data.applicant[k] \in supplied(k)

(***************************************************************************)
(* C10: with cross-validation enabled and a successful result in the       *)
(* group, fuse returns success=true, and it warns about names (policy      *)
(* numbers) exactly when the successful results hold more than one         *)
(* distinct name (policy number) after stripping and lower-casing; the     *)
(* warning names the conflicting values.                                   *)
(***************************************************************************)
C10_CrossValidationCompleteNonFatal ==
    LET names == ExtractAllNames(individual_results)
        numbers == ExtractAllPolicyNumbers(individual_results)
        normalized == {Lower(Strip(n)) : n \in numbers}
        warned(w) == \E x \in fuse_result.outcome.value.warnings : x.warning = w
    IN  (/\ fuse_result.kind = "call"
         /\ config.enable_cross_validation
         /\ Successful(individual_results) # <<>>)
        => /\ fuse_result.outcome.value.success
           /\ warned("Applicant name inconsistency found") <=> Cardinality(names) > 1
           /\ warned("Multiple policy numbers found") <=> Cardinality(normalized) > 1
           /\ \A x \in fuse_result.outcome.value.warnings :
                 /\ x.warning = "Applicant name inconsistency found" => x.values = names
                 /\ x.warning = "Multiple policy numbers found" => x.values = numbers

\* the successful results among the first k, and their distinct types
SuccessfulPrefix(k) == Successful(SubSeq(individual_results, 1, k))
DistinctTypes(pairs) == Cardinality({pairs[i].document.document_type : i \in 1..Len(pairs)})

(***************************************************************************)
(* C11, as stated: the combined confidence never exceeds 1.0 and does not  *)
(* decrease when the number of distinct successfully extracted document    *)
(* types increases: the confidence over the first k documents of a group   *)
(* is at most that of the whole group whenever the whole group has more    *)
(* distinct successful types.                                              *)
(***************************************************************************)
C11_MonotoneInDistinctTypes ==
    (fuse_result.kind = "call" /\ fuse_result.outcome.value.success) =>
        /\ ~FracLess(Frac(100, 1), fuse_result.outcome.value.confidence)
        /\ \A k \in 1..Len(individual_results) :
              DistinctTypes(SuccessfulPrefix(k))
                 < DistinctTypes(Successful(individual_results))
              => ~FracLess(fuse_result.outcome.value.confidence,
                           CalculateFusionConfidence(SubSeq(individual_results, 1, k)))

(***************************************************************************)
(* C11, amended: the combined confidence is min(1.0, average confidence of *)
(* the successful extractions + min(0.1, 0.02 per distinct successful      *)
(* type)), 0.0 without a successful extraction; it never exceeds 1.0, and  *)
(* between groups whose successful extractions have the same average it    *)
(* does not decrease when the number of distinct types increases.          *)
(***************************************************************************)
C11_CappedAveragePlusBonus ==
    LET ok == Successful(individual_results)
        n == Len(ok)
        sum == SumResultConfidence(ok)
        types == DistinctTypes(ok)
        bonus == IF 2 * types < 10 THEN 2 * types ELSE 10
        capped == IF sum + bonus * n > 100 * n THEN 100 * n ELSE sum + bonus * n
        conf == fuse_result.outcome.value.confidence
    IN  (fuse_result.kind = "call" /\ fuse_result.outcome.value.success) =>
            /\ conf.num <= 100 * conf.den
            /\ n = 0 => conf.num = 0
            /\ n > 0 => conf.num * n = conf.den * capped
            /\ \A k \in 1..Len(individual_results) :
                  (/\ SuccessfulPrefix(k) # <<>>
                   /\ SumResultConfidence(SuccessfulPrefix(k)) * n
                         = sum * Len(SuccessfulPrefix(k))
                   /\ DistinctTypes(SuccessfulPrefix(k)) <= types)
                  => ~FracLess(conf, CalculateFusionConfidence(SubSeq(individual_results, 1, k)))

\* a second type at the same average raises the confidence, and a fully
\* confident extraction is held at 1.0
C11_BonusGrowsAtEqualAverage ==
    /\ fuse_result.kind = "call"
    /\ fuse_result.outcome.value.success
    /\ Len(individual_results) = 2
    /\ individual_results[1].result.success
    /\ individual_results[2].result.success
    /\ individual_results[1].result.confidence = individual_results[2].result.confidence
    /\ individual_results[1].document.document_type # individual_results[2].document.document_type
    /\ FracLess(CalculateFusionConfidence(SubSeq(individual_results, 1, 1)),
                fuse_result.outcome.value.confidence)

(***************************************************************************)
(* The same unmodified Document classified and extracted more than once,   *)
(* while the clock that datetime.utcnow() reads may advance in between     *)
(***************************************************************************)
NoDocument == [document_type |-> "UNKNOWN"]

\* 'extraction_date': datetime.utcnow().isoformat() in the data of every
\* successful extraction
ExtractAt(reg, document, now) ==
    LET r == FactoryExtract(reg, document)
    IN  IF r.kind = "return" /\ r.value.success
        THEN Return([r.value EXCEPT !.data = ("extraction_date" :> now) @@ @])
        ELSE r

RepeatDocuments ==
    {d \in RegistryDocuments :
        /\ d.document_type \in {"ACORD_125", "LOSS_RUN", "SOV", "GENERIC", "UNKNOWN"}
        /\ d.raw_text = "text" /\ d.file_extension = ".pdf"}

RepeatMembers ==
    {m \in ClassifierMembers :
        \/ m.behaviour = "raise"
        \/ m.can_classify /\ m.doc_type \in {"LOSS_RUN", "SOV"} /\ m.confidence \in {30, 90}}

\* time passes
Tick ==
    /\ clock < MaxClock
    /\ clock' = clock + 1
    /\ UNCHANGED <<rep_document, runs, regVars, cmpVars, kwVars, fusVars, pipVars, sovVars, docVars, batVars>>

\* classifier.classify(document), then ExtractorFactory.extract(document)
ClassifyThenExtract ==
    /\ Len(runs) < MaxRuns
    /\ runs' = Append(runs, [at |-> clock,
                             classification |-> CompositeClassify(classifiers, strategy),
                             extraction |-> ExtractAt(extractors, rep_document, clock)])
    /\ UNCHANGED <<rep_document, clock, regVars, cmpVars, kwVars, fusVars, pipVars, sovVars, docVars, batVars>>

(***************************************************************************)
(* C12: idempotence.  Any two classify-then-extract runs on the same       *)
(* unmodified Document return the same (type, confidence) pair and the     *)
(* same ExtractionResult.data.                                             *)
(***************************************************************************)
C12_Idempotent ==
    \A i, j \in 1..Len(runs) :
        /\ runs[i].classification = runs[j].classification
        /\ runs[i].extraction.kind = runs[j].extraction.kind
        /\ runs[i].extraction.kind = "return"
              => runs[i].extraction.value.data = runs[j].extraction.value.data

(***************************************************************************)
(* classifiers/mime_classifier.py                                          *)
(***************************************************************************)
MIME_TYPE_HINTS ==
       "application/pdf" :> << "ACORD_126", "ACORD_125", "ACORD_130", "ACORD_140",
                               "LOSS_RUN", "FINANCIAL_STATEMENT", "GENERIC" >>
    @@ "text/csv" :> << "SOV", "LOSS_RUN" >>
    @@ "image/png" :> << "SUPPLEMENTAL" >>

EXTENSION_HINTS ==
       ".pdf" :> << "ACORD_126", "LOSS_RUN", "FINANCIAL_STATEMENT", "GENERIC" >>
    @@ ".csv" :> << "SOV", "LOSS_RUN" >>
    @@ ".png" :> << "SUPPLEMENTAL" >>

\* MimeClassifier._get_possible_types: the MIME hints, else the extension hints
GetPossibleTypes(mime_type, file_extension) ==
    IF mime_type \in DOMAIN MIME_TYPE_HINTS THEN MIME_TYPE_HINTS[mime_type]
    ELSE IF file_extension \in DOMAIN EXTENSION_HINTS THEN EXTENSION_HINTS[file_extension]
    ELSE <<>>

\* 0.4 * confidence_multiplier and 0.2 * confidence_multiplier, in hundredths
MimeSingleConfidence == 12
MimeSeveralConfidence == 6

\* MimeClassifier.classify and can_classify, as a member of a composite
MimeMember(mime_type, file_extension) ==
    LET possible_types == GetPossibleTypes(mime_type, file_extension)
    IN  [can_classify |-> mime_type # "" \/ file_extension # "",
         behaviour |-> "return",
         doc_type |-> IF possible_types = <<>> THEN "UNKNOWN" ELSE possible_types[1],
         confidence |-> IF possible_types = <<>> THEN 0
                        ELSE IF Len(possible_types) = 1 THEN MimeSingleConfidence
                        ELSE MimeSeveralConfidence,
         name |-> "MimeClassifier"]

(***************************************************************************)
(* pipeline.py and core/file_loader.py                                     *)
(***************************************************************************)
NoFile == [exists |-> FALSE]

\* ExtractionPipeline() with its default arguments
DefaultPipeline ==
    [use_classification |-> TRUE, min_classification_confidence |-> 50]

\* the files a path can lead to: absent, rejected by the MIME check,
\* unreadable, or read into text and tables
PipelineFiles ==
    [exists : BOOLEAN, safe : BOOLEAN, reads : {"ok", "raise"},
     mime_type : {"application/pdf", "text/csv", "image/png", "text/plain"},
     file_extension : {".pdf", ".csv"},
     raw_text : {"", "text"}, tables : {<<>>, <<"table">>},
     out : ExtractorBehaviours]

Thresholds == {50, 70}

PipelineConfigurations ==
    [use_classification : BOOLEAN, min_classification_confidence : Thresholds]

\* what a classifier registered under 'keyword' or 'table' makes of the document
RegisteredMembers ==
    {m \in ClassifierMembers :
        \/ m.behaviour = "raise"
        \/ m.can_classify /\ m.doc_type \in {"LOSS_RUN", "SOV"} /\ m.confidence \in {50, 90}}

\* Document(file_path, file_name, mime_type, file_extension)
NewDocument(f) ==
    [file_name |-> "name", file_path |-> "path",
     mime_type |-> f.mime_type, file_extension |-> f.file_extension,
     document_type |-> "UNKNOWN", status |-> "PENDING", confidence |-> Frac(0, 1),
     raw_text |-> "", tables |-> <<>>, metadata |-> {},
     errors |-> <<>>, warnings |-> <<>>, out |-> f.out]

\* the except clause of process
PipelineFailure(message) ==
    Return(ExtractionResult(FALSE, <<>>, 0, <<>>,
              << [prefix |-> "Pipeline processing failed", message |-> message] >>))

\* a variant that asks for a confidence strictly above the threshold
ExceedsThreshold(confidence, min_confidence) ==
    FracLess(Frac(min_confidence, 1), confidence)

\* confidence >= self.min_classification_confidence
MeetsThreshold(confidence, min_confidence) ==
    ~FracLess(confidence, Frac(min_confidence, 1))

\* a variant that stores the confidence as given
SetDocumentTypeUnclamped(doc, doc_type, confidence) ==
    [doc EXCEPT !.document_type = doc_type, !.confidence = confidence]

\* Document.set_document_type: the confidence is clamped to [0, 1]
SetDocumentType(doc, doc_type, confidence) ==
    [doc EXCEPT !.document_type = doc_type,
                !.confidence = IF FracLess(Frac(100, 1), confidence) THEN Frac(100, 1)
                               ELSE IF FracLess(confidence, Frac(0, 1)) THEN Frac(0, 1)
                               ELSE confidence]

\* ExtractionPipeline._classify_document, given what the classifier returned
ClassifyDocument(doc, min_confidence, classified) ==
    IF MeetsThreshold(classified.confidence, min_confidence)
    THEN SetDocumentType(doc, classified.doc_type, classified.confidence)
    ELSE [SetDocumentType(doc, "UNKNOWN", classified.confidence)
            EXCEPT !.metadata = @ \cup {"low_classification_confidence"}]

\* ExtractionPipeline._add_pipeline_metadata
AddPipelineMetadata(res, doc, use_classification) ==
    [res EXCEPT !.metadata =
        ("pipeline" :> [version |-> "1.0.0", processing_date |-> Now,
                        file_name |-> doc.file_name, file_path |-> doc.file_path,
                        document_type |-> doc.document_type,
                        classification_confidence |-> doc.confidence,
                        classification_used |-> use_classification]) @@ @]

\* process, step 1: UniversalFileLoader.load
PipelineLoad ==
    /\ ppc = "load"
    /\ IF ~pip_file.exists
       THEN /\ pip_result' = [kind |-> "call", outcome |-> PipelineFailure("File not found")]
            /\ ppc' = "done"
            /\ UNCHANGED pip_document
       ELSE IF ~pip_file.safe
       THEN /\ pip_result' = [kind |-> "call", outcome |-> PipelineFailure("File rejected")]
            /\ ppc' = "done"
            /\ UNCHANGED pip_document
       ELSE IF pip_file.reads = "raise"
       THEN /\ pip_document' = [NewDocument(pip_file) EXCEPT !.status = "FAILED",
                                                     !.errors = <<"Failed to load pip_file">>]
            /\ pip_result' = [kind |-> "call", outcome |-> PipelineFailure("Failed to load pip_file")]
            /\ ppc' = "done"
       ELSE /\ pip_document' = [NewDocument(pip_file) EXCEPT !.status = "LOADED",
                                                     !.raw_text = pip_file.raw_text,
                                                     !.tables = pip_file.tables]
            /\ ppc' = "classify"
            /\ UNCHANGED pip_result
    /\ UNCHANGED <<pipeline, pip_file, regVars, cmpVars, kwVars, fusVars, repVars, sovVars, docVars, batVars>>

\* process, step 2: _classify_document when classification is in use
PipelineClassify ==
    /\ ppc = "classify"
    /\ IF /\ pipeline.use_classification
          /\ \E i \in 1..Len(classifiers) : classifiers[i].can_classify
       THEN LET classified == CompositeClassify(classifiers, strategy)
            IN  /\ classification' = [kind |-> "call", outcome |-> classified]
                /\ pip_document' = ClassifyDocument(pip_document,
                                    pipeline.min_classification_confidence, classified.value)
       ELSE UNCHANGED <<classification, pip_document>>
    /\ ppc' = "extract"
    /\ UNCHANGED <<pipeline, pip_file, pip_result, classifiers, strategy,
                   regVars, kwVars, fusVars, repVars, sovVars, docVars, batVars>>

\* process, steps 3 and 4: _extract_data, then _add_pipeline_metadata
PipelineExtract ==
    /\ ppc = "extract"
    /\ LET r == FactoryExtract(extractors, pip_document)
       IN  pip_result' = [kind |-> "call",
                      outcome |-> IF r.kind = "raise" THEN PipelineFailure(r.message)
                                  ELSE Return(AddPipelineMetadata(r.value, pip_document,
                                                  pipeline.use_classification))]
    /\ ppc' = "done"
    /\ UNCHANGED <<pipeline, pip_file, pip_document, regVars, cmpVars, kwVars, fusVars, repVars, sovVars, docVars, batVars>>

C15_PipelineMetadataOnEveryResult ==
    (ppc = "done" /\ pip_result.kind = "call") =>
        /\ pip_result.outcome.kind = "return"
        /\ "pipeline" \in DOMAIN pip_result.outcome.value.metadata
        /\ {"processing_date", "file_name", "file_path",
            "classification_confidence", "classification_used"}
              \subseteq DOMAIN pip_result.outcome.value.metadata["pipeline"]

(***************************************************************************)
(* C16: the status of the document that process handled                    *)
(***************************************************************************)
\* C16: a Document starts PENDING, loading sets LOADED or FAILED, classifying
\* leaves the status alone, and when process has finished the status of the
\* document is EXTRACTED or FAILED
C16_StatusEndsExtractedOrFailed ==
    /\ (ppc = "classify" /\ pip_document # NoDocument) => pip_document.status = "LOADED"
    /\ (ppc = "extract" /\ pip_document # NoDocument) => pip_document.status = "LOADED"
    /\ (ppc = "done" /\ pip_document # NoDocument) =>
            pip_document.status \in {"EXTRACTED", "FAILED"}

C19_FuseLeavesDocumentsAlone == [][group' = group]_vars

\* fuse has returned over two documents, one extracted and one not, and both
\* are still as loaded
C19_FusedGroupStillLoaded ==
    /\ pc = "done"
    /\ fuse_result.kind = "call"
    /\ Len(group.documents) = 2
    /\ individual_results[1].result.success
    /\ ~individual_results[2].result.success
    /\ \A i \in 1..2 : /\ group.documents[i].status = "LOADED"
                       /\ group.documents[i].errors = <<>>
                       /\ individual_results[i].document = group.documents[i]

(***************************************************************************)
(* classifiers/table_classifier.py                                         *)
(* A table is the set of its headers and its number of rows; a column      *)
(* pattern is named by its regular expression and HeaderMatches gives the  *)
(* patterns re.search finds in each header.                                *)
(***************************************************************************)
TABLE_PATTERNS ==
       "LOSS_RUN" :> [required_columns |-> <<"(date|dt).*loss", "claim.*amount">>,
          strong_columns |-> <<"claim.*(number|no|id)", "(paid|incurred|reserve)", "claimant",
                               "status", "description.*(loss|claim)", "policy.*(number|no)">>,
          weak_columns |-> <<"date.*report", "adjuster", "carrier", "coverage">>,
          min_columns |-> 3, min_rows |-> 2]
    @@ "SOV" :> [required_columns |-> <<"location", "(building|property).*value">>,
          strong_columns |-> <<"address", "contents.*value", "construction", "occupancy",
                               "total.*value", "(tiv|total.*insured.*value)", "year.*built">>,
          weak_columns |-> <<"stories", "square.*feet", "sprinkler", "alarm", "roof">>,
          min_columns |-> 3, min_rows |-> 2]
    @@ "FINANCIAL_STATEMENT" :> [required_columns |-> <<"(account|category)", "(amount|balance|value)">>,
          strong_columns |-> <<"(assets|liabilities)", "(debit|credit)", "(revenue|expense)",
                               "total", "(current|prior).*year">>,
          weak_columns |-> <<"description", "notes", "percentage">>,
          min_columns |-> 2, min_rows |-> 3]

TableTypeOrder == << "LOSS_RUN", "SOV", "FINANCIAL_STATEMENT" >>

HeaderMatches ==
       "location" :> {"location"}
    @@ "building value" :> {"(building|property).*value", "(amount|balance|value)"}
    @@ "address" :> {"address"}
    @@ "date of loss" :> {"(date|dt).*loss"}
    @@ "claim amount" :> {"claim.*amount", "(amount|balance|value)"}
    @@ "notes" :> {"notes"}

HeaderVocabulary == DOMAIN HeaderMatches

\* TableClassifier.CONFIDENCE_WEIGHTS, in hundredths
TableWeightRequired == 35
TableWeightStrong == 8
TableWeightWeak == 2
StructureBonus == 15

\* TableClassifier._find_matching_columns: the number of patterns of a
\* category that some header matches
MatchingColumns(column_patterns, headers) ==
    Cardinality({i \in 1..Len(column_patterns) :
                    \E header \in headers : column_patterns[i] \in HeaderMatches[header]})

\* TableClassifier._has_good_structure
HasGoodStructure(table, patterns) ==
    Cardinality(table.headers) >= patterns.min_columns /\ table.row_count >= patterns.min_rows

\* the score of one table in TableClassifier._score_document_type; a table
\* without a required column is skipped
TableScore(table, doc_type) ==
    LET patterns == TABLE_PATTERNS[doc_type]
        required == MatchingColumns(patterns.required_columns, table.headers)
    IN  IF required = 0 THEN 0
        ELSE required * TableWeightRequired
             + MatchingColumns(patterns.strong_columns, table.headers) * TableWeightStrong
             + MatchingColumns(patterns.weak_columns, table.headers) * TableWeightWeak
             + (IF HasGoodStructure(table, patterns) THEN StructureBonus ELSE 0)

\* TableClassifier._score_document_type: the best score over the tables
RECURSIVE TableScoreDocumentType(_, _)
TableScoreDocumentType(tables, doc_type) ==
    IF tables = <<>> THEN 0
    ELSE LET rest == TableScoreDocumentType(Tail(tables), doc_type)
             here == TableScore(Head(tables), doc_type)
         IN  IF here > rest THEN here ELSE rest

\* TableClassifier.classify
TableClassify(tables) ==
    IF tables = <<>> THEN [doc_type |-> "UNKNOWN", confidence |-> 0]
    ELSE LET scored == SelectSeq(TableTypeOrder,
                                 LAMBDA t : TableScoreDocumentType(tables, t) > 0)
         IN  IF scored = <<>> THEN [doc_type |-> "UNKNOWN", confidence |-> 0]
             ELSE LET b == FirstMaxIndex([i \in 1..Len(scored) |->
                                            Frac(TableScoreDocumentType(tables, scored[i]), 1)])
                  IN  [doc_type |-> scored[b],
                       confidence |-> Min(100, TableScoreDocumentType(tables, scored[b]))]

(***************************************************************************)
(* The three classifiers of classifiers/ in one CompositeClassifier        *)
(***************************************************************************)
\* KeywordClassifier.classify and can_classify, as a member of a composite
KeywordMember(text) ==
    [can_classify |-> text # {}, behaviour |-> "return",
     doc_type |-> KeywordClassify(text).doc_type,
     confidence |-> KeywordClassify(text).confidence,
     name |-> "KeywordClassifier"]

\* TableClassifier.classify and can_classify, as a member of a composite
TableMember(tables) ==
    [can_classify |-> tables # <<>>, behaviour |-> "return",
     doc_type |-> TableClassify(tables).doc_type,
     confidence |-> TableClassify(tables).confidence,
     name |-> "TableClassifier"]

\* which of 'keyword' and 'table' stand next to 'mime' in the composite
Compositions == { {"keyword"}, {"table"}, {"keyword", "table"} }

\* create_composite(['mime', 'keyword', 'table']) over the registered names,
\* each member with what it makes of the document
CompositeMembers(doc, registered) ==
    <<MimeMember(doc.mime_type, doc.file_extension)>>
    \o (IF "keyword" \in registered THEN <<KeywordMember(doc.raw_text)>> ELSE <<>>)
    \o (IF "table" \in registered THEN <<TableMember(doc.tables)>> ELSE <<>>)

\* the files behind the documents that the three classifiers are run on
ClassifiedFiles ==
    { [mime_type |-> "application/pdf", file_extension |-> ".pdf", out |-> [kind |-> "fail"]],
      [mime_type |-> "text/csv", file_extension |-> ".csv", out |-> [kind |-> "fail"]],
      [mime_type |-> "image/png", file_extension |-> ".png", out |-> [kind |-> "fail"]],
      [mime_type |-> "text/plain", file_extension |-> ".csv", out |-> [kind |-> "fail"]] }

ClassifiedTexts ==
    {t \in SUBSET {"loss run", "claimant", "schedule of values", "acord 126", "lorem ipsum"} :
        Cardinality(t) <= MaxPhrases}

ClassifiedTables ==
    {<<>>} \cup
    { <<[headers |-> h, row_count |-> n]>> :
        h \in {hs \in SUBSET HeaderVocabulary : hs # {} /\ Cardinality(hs) <= MaxHeaders},
        n \in {1, 3} }

\* a caller runs the composite on the loaded document
ClassifyLoaded ==
    /\ ppc = "loaded"
    /\ classification = NoCall
    /\ classification' = [kind |-> "call", outcome |-> CompositeClassify(classifiers, strategy)]
    /\ UNCHANGED <<classifiers, strategy, regVars, kwVars, fusVars, repVars, pipVars, sovVars, docVars, batVars>>

(***************************************************************************)
(* C20: the MIME classifier against a confident keyword or table match     *)
(***************************************************************************)
\* C20: in a composite of the MimeClassifier with the KeywordClassifier and/or
\* the TableClassifier, under every strategy, when a keyword or table member
\* returns a type with confidence at least 0.5 and the mime member returns
\* another type, the composite does not return the mime member's type (read
\* in the claim's favour: unless a confident member returned that type too)
C20_MimeNeverWinsOverConfident ==
    (ppc = "loaded" /\ classification.kind = "call") =>
        LET mime == classifiers[1]
        IN  (/\ mime.can_classify
             /\ \E i \in 2..Len(classifiers) :
                   /\ classifiers[i].can_classify
                   /\ classifiers[i].confidence >= 50
                   /\ classifiers[i].doc_type # mime.doc_type
             /\ \A i \in 2..Len(classifiers) :
                   (classifiers[i].can_classify /\ classifiers[i].confidence >= 50)
                      => classifiers[i].doc_type # mime.doc_type)
            => classification.outcome.value.doc_type # mime.doc_type

(***************************************************************************)
(* extractors/sov_extractor.py                                             *)
(* A header is a string, a cell a sequence of characters; a column pattern *)
(* is named by its regular expression and SovHeaderMatches gives the       *)
(* patterns re.search finds in each lower-cased header.                    *)
(***************************************************************************)
COLUMN_PATTERNS ==
       "location_number" :> << "location.*(?:number|no|#|id)", "site.*(?:number|no|#)", "loc.*#" >>
    @@ "address" :> << "(?:property\\s+)?address", "street.*address", "location.*address" >>
    @@ "city" :> << "city" >>
    @@ "state" :> << "state", "st" >>
    @@ "zip" :> << "zip.*code", "postal.*code", "zip" >>
    @@ "building_value" :> << "building.*value", "structure.*value", "bldg.*value" >>
    @@ "contents_value" :> << "contents.*value", "personal.*property", "pp.*value" >>
    @@ "business_income" :> << "business.*income", "bi.*value", "loss.*income" >>
    @@ "total_value" :> << "total.*(?:insured\\s+)?value", "tiv", "total.*coverage" >>
    @@ "construction" :> << "construction.*type", "construction", "const.*type" >>
    @@ "occupancy" :> << "occupancy.*type", "occupancy", "use.*type" >>
    @@ "year_built" :> << "year.*built", "construction.*year", "built.*year" >>
    @@ "square_feet" :> << "(?:square\\s+)?(?:feet|ft|footage)", "sq.*ft", "area" >>
    @@ "stories" :> << "(?:number.*of\\s+)?stor(?:ies|ys)", "floors" >>
    @@ "sprinkler" :> << "sprinkler.*(?:system|protected)?", "fire.*protection" >>
    @@ "roof_type" :> << "roof.*type", "roofing" >>

\* h.lower() for the headers in use
HeaderLower ==
       "Location" :> "location"
    @@ "Location Number" :> "location number"
    @@ "Address" :> "address"
    @@ "Building Value" :> "building value"
    @@ "Contents Value" :> "contents value"

SovHeaderMatches ==
       "location" :> {}
    @@ "location number" :> {"location.*(?:number|no|#|id)"}
    @@ "address" :> {"(?:property\\s+)?address"}
    @@ "building value" :> {"building.*value"}
    @@ "contents value" :> {"contents.*value"}

\* the first column whose lower-cased header matches a pattern of the field,
\* 0 when there is none
FirstMatchingColumn(field, headers) ==
    LET cols == {c \in 1..Len(headers) :
                    \E i \in 1..Len(COLUMN_PATTERNS[field]) :
                        COLUMN_PATTERNS[field][i] \in SovHeaderMatches[HeaderLower[headers[c]]]}
    IN  IF cols = {} THEN 0 ELSE CHOOSE c \in cols : \A d \in cols : c <= d

\* SovExtractor._map_columns: field -> column, for the fields that have one
MapColumns(headers) ==
    LET mapped == {f \in DOMAIN COLUMN_PATTERNS : FirstMatchingColumn(f, headers) # 0}
    IN  [f \in mapped |-> FirstMatchingColumn(f, headers)]

Digits == {"0", "1", "2", "3", "4", "5", "6", "7", "8", "9"}
DigitValue ==
    "0" :> 0 @@ "1" :> 1 @@ "2" :> 2 @@ "3" :> 3 @@ "4" :> 4
    @@ "5" :> 5 @@ "6" :> 6 @@ "7" :> 7 @@ "8" :> 8 @@ "9" :> 9

RECURSIVE DecimalValue(_)
DecimalValue(str) ==
    IF str = <<>> THEN 0
    ELSE 10 * DecimalValue(SubSeq(str, 1, Len(str) - 1)) + DigitValue[str[Len(str)]]

None == [none |-> TRUE]
Float(n) == [float |-> n]

\* float(cleaned) for the strings in use: digits with an optional minus sign,
\* ValueError (here None) for anything else
ToFloat(str) ==
    LET digits == IF str # <<>> /\ str[1] = "-" THEN Tail(str) ELSE str
    IN  IF digits = <<>> \/ \E i \in 1..Len(digits) : digits[i] \notin Digits
        THEN None
        ELSE IF digits = str THEN Float(DecimalValue(digits))
        ELSE Float(0 - DecimalValue(digits))

\* SovExtractor._parse_amount
ParseAmount(amount_str) ==
    IF amount_str = <<>> THEN None
    ELSE LET cleaned == SelectSeq(amount_str, LAMBDA c : c \notin {"$", ",", " "})
             has_parens == /\ \E i \in 1..Len(cleaned) : cleaned[i] = "("
                           /\ \E i \in 1..Len(cleaned) : cleaned[i] = ")"
         IN  IF has_parens
             THEN ToFloat(<<"-">> \o SelectSeq(cleaned, LAMBDA c : c \notin {"(", ")"}))
             ELSE ToFloat(cleaned)

AmountFields == {"building_value", "contents_value", "business_income", "total_value"}

\* SovExtractor._extract_property_from_row: the non-empty cells of the mapped
\* columns, amounts parsed, full_address added when an address part is there
ExtractPropertyFromRow(row, column_map) ==
    LET present == {f \in DOMAIN column_map :
                       column_map[f] <= Len(row) /\ Strip(row[column_map[f]]) # <<>>}
        fields == [f \in present |->
                      IF f \in AmountFields THEN ParseAmount(Strip(row[column_map[f]]))
                      ELSE Strip(row[column_map[f]])]
    IN  IF present \cap {"address", "city", "state", "zip"} # {}
        THEN ("full_address" :> Get(fields, "address", <<>>)) @@ fields
        ELSE fields

\* SovExtractor._is_valid_property
IsValidProperty(property_data) ==
    /\ \E f \in {"location_number", "address", "full_address"} :
          Get(property_data, f, <<>>) # <<>>
    /\ \E f \in {"building_value", "contents_value", "total_value"} :
          Get(property_data, f, None) # None

\* the properties that _extract_from_tables takes from the rows of one table
RECURSIVE PropertiesFromRows(_, _, _)
PropertiesFromRows(rows, column_map, row_idx) ==
    IF rows = <<>> THEN <<>>
    ELSE LET property_data == ExtractPropertyFromRow(Head(rows), column_map)
             rest == PropertiesFromRows(Tail(rows), column_map, row_idx + 1)
         IN  IF DOMAIN property_data # {} /\ IsValidProperty(property_data)
             THEN <<("_source" :> [table_index |-> 0, row_index |-> row_idx]) @@ property_data>>
                  \o rest
             ELSE rest

\* prop.get(field) as a truth value
Truthy(property_data, f) ==
    /\ f \in DOMAIN property_data
    /\ IF f \in AmountFields
       THEN property_data[f] # None /\ property_data[f] # Float(0)
       ELSE property_data[f] # <<>>

\* SovExtractor._calculate_confidence without warnings, in thousandths
SovConfidence(properties) ==
    LET complete == Cardinality({i \in 1..Len(properties) :
                        \A f \in {"address", "building_value", "contents_value"} :
                            Truthy(properties[i], f)})
    IN  Min(1000, 700 + (IF Len(properties) >= 3 THEN 100 ELSE 0)
                      + (complete * 150) \div Len(properties))

\* SovExtractor._extract_from_tables on the single table of the document,
\* with the column mapping given
SovExtractFromTables(document, column_map) ==
    LET table == document.tables[1]
        properties == IF DOMAIN column_map = {} THEN <<>>
                      ELSE PropertiesFromRows(table.rows, column_map, 0)
    IN  IF properties = <<>>
        THEN ExtractionResult(FALSE, <<>>, 0, <<>>, <<"No valid properties found in tables">>)
        ELSE ExtractionResult(TRUE,
                [document_type |-> "sov", extraction_date |-> Now,
                 properties |-> properties, property_count |-> Len(properties)],
                SovConfidence(properties), <<>>, <<>>)

\* SovExtractor.extract on a document that is not a spreadsheet file
SovExtract(document) ==
    IF document.document_type # "SOV"
    THEN ExtractionResult(FALSE, <<>>, 0, <<>>, <<"Expected SOV document">>)
    ELSE LET from_tables ==
                 IF document.tables # <<>>
                 THEN SovExtractFromTables(document, MapColumns(document.tables[1].headers))
                 ELSE ExtractionResult(FALSE, <<>>, 0, <<>>, <<>>)
         IN  IF from_tables.success THEN from_tables
             ELSE ExtractionResult(FALSE, <<>>, 0, <<>>, <<"No extractable SOV data found">>)

\* cells of a schedule
OneMillionDollars == <<"$", "1", ",", "0", "0", "0", ",", "0", "0", "0">>
FiftyDollars == <<"$", "5", "0">>
NotAvailable == <<"n", "/", "a">>

SovRows ==
    { <<id, building, contents>> :
        id \in {<<>>, <<"1">>},
        building \in {OneMillionDollars, FiftyDollars, NotAvailable, <<>>},
        contents \in {FiftyDollars, <<>>} }

SovHeaders ==
    { <<first, "Building Value", "Contents Value">> :
        first \in {"Location", "Location Number", "Address"} }

\* SOV documents read from a PDF, with one table
SovDocuments ==
    { [document_type |-> "SOV", file_extension |-> ".pdf", raw_text |-> "",
       tables |-> << [headers |-> h, rows |-> r] >>] :
        h \in SovHeaders, r \in SeqsUpTo(SovRows, MaxRows) }

\* a caller runs the SovExtractor on the document
SovExtractCall ==
    /\ sov_result = NoCall
    /\ sov_result' = [kind |-> "call", outcome |-> Return(SovExtract(sov_document))]
    /\ UNCHANGED <<sov_document, regVars, cmpVars, kwVars, fusVars, repVars, pipVars, docVars, batVars>>

(***************************************************************************)
(* C21: the schedule headed Location / Building Value / Contents Value     *)
(***************************************************************************)
\* C21: for an SOV document whose table is headed "Location", "Building Value",
\* "Contents Value" and has two rows, one of them with Building Value
\* "$1,000,000", extract succeeds and returns a property whose building_value
\* is the float 1000000.0
C21_LocationTableParses ==
    (/\ sov_result.kind = "call"
     /\ sov_document.tables[1].headers = <<"Location", "Building Value", "Contents Value">>
     /\ Len(sov_document.tables[1].rows) = 2
     /\ \E i \in 1..2 : /\ sov_document.tables[1].rows[i][1] # <<>>
                        /\ sov_document.tables[1].rows[i][2] = OneMillionDollars)
    => /\ sov_result.outcome.value.success
       /\ \E j \in 1..Len(sov_result.outcome.value.data.properties) :
             Get(sov_result.outcome.value.data.properties[j], "building_value", None)
                = Float(1000000)

(***************************************************************************)
(* core/document.py: the calls that set a Document's type and confidence   *)
(***************************************************************************)
\* confidences a caller or a classifier may pass, in hundredths: below 0,
\* inside [0, 1] and above 1
ConfidenceArguments == {Frac(c, 1) : c \in {0 - 50, 0, 30, 50, 100, 150}}

TypeArguments == {"UNKNOWN", "ACORD_125", "LOSS_RUN", "SOV", "GENERIC"}

\* Document.classify_as
ClassifyAs(doc, doc_type, confidence) ==
    [SetDocumentType(doc, doc_type, confidence)
        EXCEPT !.metadata = @ \cup {"classifier", "classification_timestamp"}]

\* document.set_document_type(doc_type, confidence)
SetDocumentTypeCall ==
    /\ cls_document # NoDocument
    /\ \E t \in TypeArguments, c \in ConfidenceArguments :
          /\ cls_document' = SetDocumentType(cls_document, t, c)
          /\ cls_call' = [kind |-> "set_document_type", doc_type |-> t, confidence |-> c]
    /\ UNCHANGED <<regVars, cmpVars, kwVars, fusVars, repVars, pipVars, sovVars, batVars>>

\* document.classify_as(doc_type, confidence, classifier_name)
ClassifyAsCall ==
    /\ cls_document # NoDocument
    /\ \E t \in TypeArguments, c \in ConfidenceArguments :
          /\ cls_document' = ClassifyAs(cls_document, t, c)
          /\ cls_call' = [kind |-> "classify_as", doc_type |-> t, confidence |-> c]
    /\ UNCHANGED <<regVars, cmpVars, kwVars, fusVars, repVars, pipVars, sovVars, batVars>>

\* ExtractionPipeline._classify_document, for whatever type and confidence
\* the pipeline's classifier returns
ClassifyDocumentCall ==
    /\ cls_document # NoDocument
    /\ \E t \in TypeArguments, c \in ConfidenceArguments :
          /\ cls_document' = ClassifyDocument(cls_document,
                                 pipeline.min_classification_confidence,
                                 [doc_type |-> t, confidence |-> c])
          /\ cls_call' = [kind |-> "_classify_document", doc_type |-> t, confidence |-> c]
    /\ UNCHANGED <<regVars, cmpVars, kwVars, fusVars, repVars, pipVars, sovVars, batVars>>

(***************************************************************************)
(* C22: the confidence of a Document stays within [0, 1]                   *)
(***************************************************************************)
\* C22: after any sequence of set_document_type, classify_as and pipeline
\* classification steps, with any confidence argument, the stored confidence
\* is at least 0 and at most 1 (100 hundredths); a value inside the range is
\* stored as given
C22_ConfidenceClamped ==
    cls_document # NoDocument =>
        /\ ~FracLess(cls_document.confidence, Frac(0, 1))
        /\ ~FracLess(Frac(100, 1), cls_document.confidence)
        /\ cls_call # NoCall =>
              IF FracLess(Frac(100, 1), cls_call.confidence)
              THEN cls_document.confidence = Frac(100, 1)
              ELSE IF FracLess(cls_call.confidence, Frac(0, 1))
              THEN cls_document.confidence = Frac(0, 1)
              ELSE cls_document.confidence = cls_call.confidence

\* the pipeline's classifier returned a confidence above 1, after an earlier call
C22_OutOfRangeArgument ==
    /\ cls_call # NoCall
    /\ cls_call.kind = "_classify_document"
    /\ cls_call.confidence = Frac(150, 1)
    /\ cls_document.confidence = Frac(100, 1)
    /\ "classifier" \in cls_document.metadata

(***************************************************************************)
(* C23: the dispatch rule of get_extractor_for_document                    *)
(***************************************************************************)
\* C23: get_extractor_for_document returns the extractor registered for the
\* document's type exactly when one is registered and its can_extract(document)
\* is true, and the GenericExtractor in every other case; the default registry
\* maps GENERIC and UNKNOWN to the GenericExtractor
C23_DispatchRule ==
    /\ DefaultRegistry["GENERIC"] = "GenericExtractor"
    /\ DefaultRegistry["UNKNOWN"] = "GenericExtractor"
    /\ resolved.kind = "call" =>
          /\ resolved.outcome.kind = "return"
          /\ resolved.outcome.value =
                IF /\ resolved.registered # "None"
                   /\ CanExtract(resolved.registered, resolved.document) = Return(TRUE)
                THEN resolved.registered
                ELSE "GenericExtractor"

(***************************************************************************)
(* C26: the totals of the merged loss runs                                 *)
(***************************************************************************)
\* C26: after the LOSS_RUN merge of a successful fuse, total_paid is the sum
\* of paid and total_incurred the sum of incurred over exactly the claims of
\* the merged claims list, so a claim removed as a duplicate adds nothing
C26_TotalsOverSurvivingClaims ==
    (/\ fuse_result.kind = "call"
     /\ fuse_result.outcome.value.success
     /\ "claims_history" \in DOMAIN fuse_result.outcome.value.data)
    => LET history == fuse_result.outcome.value.data.claims_history
       IN  /\ history.totals.total_paid = SumField(history.claims, "paid")
           /\ history.totals.total_incurred = SumField(history.claims, "incurred")

(***************************************************************************)
(* C27: the merged properties of the statements of values                  *)
(***************************************************************************)
\* C27: the merged properties of a successful fuse are the concatenation of
\* the properties of the successful SOV results from which a property is
\* removed exactly when an earlier one has the same identifier of the same
\* kind (location_number when present, otherwise address); a property with
\* neither identifier is kept
C27_FirstPropertyPerIdentifierKept ==
    LET ok == SelectSeq(individual_results,
                  LAMBDA p : p.document.document_type = "SOV" /\ p.result.success)
        all == ConcatItems(ok, "properties")
        kind(i) == IF Get(all[i], "location_number", "") # "" THEN "location_number"
                   ELSE IF Get(all[i], "address", "") # "" THEN "address" ELSE "none"
        identifier(i) == IF kind(i) = "none" THEN "" ELSE all[i][kind(i)]
        kept == {i \in 1..Len(all) :
                    \/ kind(i) = "none"
                    \/ \A j \in 1..(i - 1) :
                          ~(kind(j) = kind(i) /\ identifier(j) = identifier(i))}
        nth(k) == CHOOSE i \in kept : Cardinality({j \in kept : j <= i}) = k
    IN  (/\ fuse_result.kind = "call"
         /\ fuse_result.outcome.value.success
         /\ \E i \in 1..Len(individual_results) :
               individual_results[i].document.document_type = "SOV")
        => /\ "property_schedule" \in DOMAIN fuse_result.outcome.value.data
           /\ Len(fuse_result.outcome.value.data.property_schedule.properties) = Cardinality(kept)
           /\ \A k \in 1..Cardinality(kept) :
                 fuse_result.outcome.value.data.property_schedule.properties[k] = all[nth(k)]

(***************************************************************************)
(* C28: the financial statement kept by fusion                             *)
(***************************************************************************)
\* C28: whenever at least one FINANCIAL_STATEMENT extraction of a fused group
\* succeeded, whatever its confidence, financial_information is present in
\* the merged data and holds the data of a successful result of the highest
\* confidence among the successful ones
C28_BestFinancialStatementKept ==
    LET ok == SelectSeq(individual_results,
                  LAMBDA p : p.document.document_type = "FINANCIAL_STATEMENT"
                             /\ p.result.success)
        best == {i \in 1..Len(ok) :
                    \A j \in 1..Len(ok) : ok[j].result.confidence <= ok[i].result.confidence}
    IN  (/\ fuse_result.kind = "call"
         /\ fuse_result.outcome.value.success
         /\ ok # <<>>)
        => /\ "financial_information" \in DOMAIN fuse_result.outcome.value.data
           /\ \E i \in best :
                 \A k \in DOMAIN ok[i].result.data :
                    /\ k \in DOMAIN fuse_result.outcome.value.data.financial_information
                    /\ fuse_result.outcome.value.data.financial_information[k]
                          = ok[i].result.data[k]

(***************************************************************************)
(* pipeline.py: process as one call, and process_batch                     *)
(***************************************************************************)
\* ExtractionPipeline.process: load, classify, extract, add the metadata;
\* whatever is raised on the way becomes a failed result
Process(pl, members, strat, reg, f) ==
    IF ~f.exists THEN PipelineFailure("File not found")
    ELSE IF ~f.safe THEN PipelineFailure("File rejected")
    ELSE IF f.reads = "raise" THEN PipelineFailure("Failed to load pip_file")
    ELSE LET loaded == [NewDocument(f) EXCEPT !.status = "LOADED",
                                              !.raw_text = f.raw_text,
                                              !.tables = f.tables]
             doc == IF /\ pl.use_classification
                       /\ \E i \in 1..Len(members) : members[i].can_classify
                    THEN ClassifyDocument(loaded, pl.min_classification_confidence,
                                          CompositeClassify(members, strat).value)
                    ELSE loaded
             r == FactoryExtract(reg, doc)
         IN  IF r.kind = "raise" THEN PipelineFailure(r.message)
             ELSE Return(AddPipelineMetadata(r.value, doc, pl.use_classification))

\* the composite of the pipeline, applied to the document of one path
BatchMembers(entry) ==
    <<MimeMember(entry.file.mime_type, entry.file.file_extension)>> \o entry.registered

\* self.process(file_path) for one entry of the batch
ProcessEntry(pl, strat, reg, entry) ==
    Process(pl, BatchMembers(entry), strat, reg, entry.file)

\* a variant of the loop body that treats a failed result as an exception
AfterFileFailedAsException(results, outcome, continue) ==
    IF outcome.kind = "return" /\ outcome.value.success
    THEN [results |-> results \o <<outcome.value>>, raised |-> FALSE]
    ELSE IF continue
    THEN [results |-> results \o
             <<ExtractionResult(FALSE, [file_path |-> "path"], 0, <<>>,
                  << [prefix |-> "Failed to process", message |-> "failed"] >>)>>,
          raised |-> FALSE]
    ELSE [results |-> results, raised |-> TRUE]

\* the body of the loop of process_batch, given what process did
AfterFile(results, outcome, continue) ==
    IF outcome.kind = "return"
    THEN [results |-> results \o <<outcome.value>>, raised |-> FALSE]
    ELSE IF continue
    THEN [results |-> results \o
             <<ExtractionResult(FALSE, [file_path |-> "path"], 0, <<>>,
                  << [prefix |-> "Failed to process", message |-> outcome.message] >>)>>,
          raised |-> FALSE]
    ELSE [results |-> results, raised |-> TRUE]

\* what the paths of a batch lead to
BatchFiles ==
    {f \in PipelineFiles :
        /\ f.mime_type = "application/pdf" /\ f.file_extension = ".pdf"
        /\ f.raw_text = "text" /\ f.tables = <<"table">>
        /\ (~f.exists => f.safe /\ f.reads = "ok")
        /\ (~f.safe => f.reads = "ok")}

\* a path, with what the classifiers registered besides 'mime' make of it
BatchEntries ==
    [file : BatchFiles,
     registered : {<<>>, << [can_classify |-> TRUE, behaviour |-> "return",
                            doc_type |-> "LOSS_RUN", confidence |-> 90,
                            name |-> MemberName] >>}]

\* process_batch, one turn of its loop
BatchProcessFile ==
    /\ batch_return = NoCall
    /\ Len(batch_results) < Len(batch_files)
    /\ LET entry == batch_files[Len(batch_results) + 1]
           after == AfterFile(batch_results,
                              ProcessEntry(pipeline, strategy, extractors, entry),
                              continue_on_error)
       IN  IF after.raised
           THEN /\ batch_return' = [kind |-> "call", outcome |-> Raise("Exception", "raised")]
                /\ UNCHANGED batch_results
           ELSE /\ batch_results' = after.results
                /\ UNCHANGED batch_return
    /\ UNCHANGED <<batch_files, continue_on_error, regVars, cmpVars, kwVars, fusVars,
                   repVars, pipVars, sovVars, docVars>>

\* process_batch, return results
BatchReturn ==
    /\ batch_return = NoCall
    /\ Len(batch_results) = Len(batch_files)
    /\ batch_return' = [kind |-> "call", outcome |-> Return(batch_results)]
    /\ UNCHANGED <<batch_files, continue_on_error, batch_results, regVars, cmpVars, kwVars,
                   fusVars, repVars, pipVars, sovVars, docVars>>

RegisterDefaultClassifiers == {"mime"}

\* the names ExtractionPipeline.__init__ hands to create_composite
PipelineClassifierNames == <<"mime", "keyword", "table">>

\* the classifier class registered under a name, as it acts on the document
ClassifierNamed(name, doc) ==
    CASE name = "mime" -> MimeMember(doc.mime_type, doc.file_extension)
      [] name = "keyword" -> KeywordMember(doc.raw_text)
      [] name = "table" -> TableMember(doc.tables)

\* ClassifierRegistry.create_composite: a name that is not registered is skipped
RECURSIVE CreateComposite(_, _, _)
CreateComposite(registry, classifier_names, doc) ==
    IF classifier_names = <<>> THEN <<>>
    ELSE (IF Head(classifier_names) \in registry
          THEN <<ClassifierNamed(Head(classifier_names), doc)>> ELSE <<>>)
         \o CreateComposite(registry, Tail(classifier_names), doc)

(***************************************************************************)
(* C30: the members of the default pipeline's composite                    *)
(***************************************************************************)
\* C30: the composite of a default pipeline has a member for each of mime,
\* keyword and table, and a loaded document whose KeywordClassifier
\* confidence is at or above min_classification_confidence is given that
\* classifier's type rather than UNKNOWN
C30_DefaultCompositeHasKeywordMember ==
    (/\ ppc = "done"
     /\ kw_text # {}
     /\ pip_document # NoDocument /\ pip_document.status = "LOADED"
     /\ KeywordMember(kw_text).confidence >= pipeline.min_classification_confidence)
    => /\ \E i \in 1..Len(classifiers) : classifiers[i].name = "KeywordClassifier"
       /\ pip_document.document_type = KeywordMember(kw_text).doc_type

(***************************************************************************)
(* Voting and averaging over up to MaxVoters members that all vote         *)
(***************************************************************************)
VotingMembers ==
    [can_classify : {TRUE}, behaviour : {"return"},
     doc_type : {"ACORD_126", "LOSS_RUN", "SOV"},
     confidence : {30, 90}, name : {MemberName}]

(***************************************************************************)
(* C24: the voting strategy                                                *)
(***************************************************************************)
\* C24: with strategy 'voting', classify returns a type with the most member
\* votes; when several types tie on the highest count, it returns the vote
\* with the largest confidence among the votes for the tied types, the
\* earlier-listed member's on an exact tie
C24_VotingMajorityThenHighest ==
    LET voters == {i \in 1..Len(classifiers) :
                      classifiers[i].can_classify /\ classifiers[i].behaviour = "return"}
        Count(t) == Cardinality({i \in voters : classifiers[i].doc_type = t})
        top == {t \in {classifiers[i].doc_type : i \in voters} :
                   \A i \in voters : Count(classifiers[i].doc_type) <= Count(t)}
        among == {i \in voters : classifiers[i].doc_type \in top}
        best == CHOOSE i \in among :
                   /\ \A j \in among : classifiers[j].confidence <= classifiers[i].confidence
                   /\ \A j \in among : j < i => classifiers[j].confidence < classifiers[i].confidence
    IN  (strategy = "voting" /\ classification.kind = "call" /\ voters # {}) =>
           /\ classification.outcome.kind = "return"
           /\ classification.outcome.value.doc_type \in top
           /\ Cardinality(top) > 1 =>
                 /\ classification.outcome.value.doc_type = classifiers[best].doc_type
                 /\ classification.outcome.value.confidence = Frac(classifiers[best].confidence, 1)

\* two types with two votes each, all at the same confidence, and a fifth
\* vote for a third type at a higher confidence
C24_TieBelowStrongerMinority ==
    /\ strategy = "voting"
    /\ classification.kind = "call"
    /\ Len(classifiers) = 5
    /\ Cardinality({i \in 1..5 : classifiers[i].doc_type = "SOV"}) = 2
    /\ Cardinality({i \in 1..5 : classifiers[i].doc_type = "LOSS_RUN"}) = 2
    /\ \A i \in 1..5 : classifiers[i].confidence = (IF classifiers[i].doc_type = "ACORD_126"
                                                    THEN 90 ELSE 30)
    /\ classifiers[1].doc_type = "SOV"
    /\ classification.outcome.value.doc_type = "SOV"

(***************************************************************************)
(* C25: the weighted_average strategy                                      *)
(***************************************************************************)
\* C25: with strategy 'weighted_average', classify returns the type whose
\* votes have the highest mean confidence (the first such type in order of
\* first vote) together with that mean; not the sum, not the maximum
C25_WeightedAverageIsMean ==
    LET voters == {i \in 1..Len(classifiers) :
                      classifiers[i].can_classify /\ classifiers[i].behaviour = "return"}
        Of(t) == {i \in voters : classifiers[i].doc_type = t}
        RECURSIVE Sum(_)
        Sum(S) == IF S = {} THEN 0
                  ELSE LET i == CHOOSE i \in S : TRUE
                       IN  classifiers[i].confidence + Sum(S \ {i})
        Mean(t) == Frac(Sum(Of(t)), Cardinality(Of(t)))
        First(t) == CHOOSE i \in Of(t) : \A j \in Of(t) : i <= j
        types == {classifiers[i].doc_type : i \in voters}
        winner == CHOOSE t \in types :
                     /\ \A u \in types : ~FracLess(Mean(t), Mean(u))
                     /\ \A u \in types : First(u) < First(t) => FracLess(Mean(u), Mean(t))
    IN  (strategy = "weighted_average" /\ classification.kind = "call" /\ voters # {}) =>
           /\ classification.outcome.kind = "return"
           /\ classification.outcome.value.doc_type = winner
           /\ classification.outcome.value.confidence = Mean(winner)

\* a type with two weak votes and one strong vote loses to a type with a
\* single strong vote, though its sum and its maximum are not smaller
C25_MeanBeatsSumAndMaximum ==
    /\ strategy = "weighted_average"
    /\ classification.kind = "call"
    /\ Len(classifiers) = 4
    /\ \A i \in 1..3 : classifiers[i].doc_type = "SOV"
    /\ classifiers[1].confidence = 90 /\ classifiers[2].confidence = 30
    /\ classifiers[3].confidence = 30
    /\ classifiers[4].doc_type = "LOSS_RUN" /\ classifiers[4].confidence = 90
    /\ classification.outcome.value.doc_type = "LOSS_RUN"
    /\ classification.outcome.value.confidence = Frac(90, 1)

(***************************************************************************)
(* Specifications: one per component, the other components at rest         *)
(***************************************************************************)

RegistryInit ==
    /\ \E failed \in SUBSET OptionalImports :
          /\ Cardinality(failed) <= MaxFailedImports
          /\ extractors = RegisterDefaultExtractors(failed)
    /\ resolved = NoCall /\ extraction = NoCall /\ registrations = 0
    /\ classifiers = <<>> /\ strategy = "highest_confidence" /\ classification = NoCall
    /\ kw_text = {} /\ keyword_result = NoCall
    /\ group = EmptyGroup /\ config = DefaultConfiguration
    /\ individual_results = <<>> /\ extract_calls = 0 /\ pc = "idle" /\ fuse_result = NoCall
    /\ rep_document = NoDocument /\ clock = 0 /\ runs = <<>>
    /\ pipeline = DefaultPipeline /\ pip_file = NoFile /\ pip_document = NoDocument
    /\ ppc = "idle" /\ pip_result = NoCall
    /\ sov_document = NoDocument /\ sov_result = NoCall
    /\ cls_document = NoDocument /\ cls_call = NoCall
    /\ batch_files = <<>> /\ continue_on_error = TRUE /\ batch_results = <<>>
    /\ batch_return = NoCall

CompositeInit ==
    /\ classifiers \in SeqsUpTo(ClassifierMembers, MaxClassifiers)
    /\ strategy \in Strategies
    /\ classification = NoCall
    /\ extractors = DefaultRegistry
    /\ resolved = NoCall /\ extraction = NoCall /\ registrations = 0
    /\ kw_text = {} /\ keyword_result = NoCall
    /\ group = EmptyGroup /\ config = DefaultConfiguration
    /\ individual_results = <<>> /\ extract_calls = 0 /\ pc = "idle" /\ fuse_result = NoCall
    /\ rep_document = NoDocument /\ clock = 0 /\ runs = <<>>
    /\ pipeline = DefaultPipeline /\ pip_file = NoFile /\ pip_document = NoDocument
    /\ ppc = "idle" /\ pip_result = NoCall
    /\ sov_document = NoDocument /\ sov_result = NoCall
    /\ cls_document = NoDocument /\ cls_call = NoCall
    /\ batch_files = <<>> /\ continue_on_error = TRUE /\ batch_results = <<>>
    /\ batch_return = NoCall

KeywordInit ==
    /\ kw_text \in {t \in SUBSET Vocabulary : Cardinality(t) <= MaxPhrases}
    /\ keyword_result = NoCall
    /\ extractors = DefaultRegistry
    /\ resolved = NoCall /\ extraction = NoCall /\ registrations = 0
    /\ classifiers = <<>> /\ strategy = "highest_confidence" /\ classification = NoCall
    /\ group = EmptyGroup /\ config = DefaultConfiguration
    /\ individual_results = <<>> /\ extract_calls = 0 /\ pc = "idle" /\ fuse_result = NoCall
    /\ rep_document = NoDocument /\ clock = 0 /\ runs = <<>>
    /\ pipeline = DefaultPipeline /\ pip_file = NoFile /\ pip_document = NoDocument
    /\ ppc = "idle" /\ pip_result = NoCall
    /\ sov_document = NoDocument /\ sov_result = NoCall
    /\ cls_document = NoDocument /\ cls_call = NoCall
    /\ batch_files = <<>> /\ continue_on_error = TRUE /\ batch_results = <<>>
    /\ batch_return = NoCall

FusionInit ==
    /\ \E contents \in SeqsUpTo(DocumentContents, MaxDocuments) :
          group = [group_id |-> "submission",
                   documents |-> [i \in 1..Len(contents) |->
                                    [file_name |-> FileName(i), status |-> "LOADED",
                                     confidence |-> 100, errors |-> <<>>,
                                     warnings |-> <<>>] @@ contents[i]]]
    /\ config \in Configurations
    /\ individual_results = <<>>
    /\ extract_calls = 0
    /\ pc = "extract_all"
    /\ fuse_result = NoCall
    /\ extractors = DefaultRegistry
    /\ resolved = NoCall /\ extraction = NoCall /\ registrations = 0
    /\ classifiers = <<>> /\ strategy = "highest_confidence" /\ classification = NoCall
    /\ kw_text = {} /\ keyword_result = NoCall
    /\ rep_document = NoDocument /\ clock = 0 /\ runs = <<>>
    /\ pipeline = DefaultPipeline /\ pip_file = NoFile /\ pip_document = NoDocument
    /\ ppc = "idle" /\ pip_result = NoCall
    /\ sov_document = NoDocument /\ sov_result = NoCall
    /\ cls_document = NoDocument /\ cls_call = NoCall
    /\ batch_files = <<>> /\ continue_on_error = TRUE /\ batch_results = <<>>
    /\ batch_return = NoCall

RepeatInit ==
    /\ rep_document \in RepeatDocuments
    /\ clock = 0
    /\ runs = <<>>
    /\ classifiers \in SeqsUpTo(RepeatMembers, MaxMembers)
    /\ strategy \in Strategies
    /\ classification = NoCall
    /\ extractors = DefaultRegistry
    /\ resolved = NoCall /\ extraction = NoCall /\ registrations = 0
    /\ kw_text = {} /\ keyword_result = NoCall
    /\ group = EmptyGroup /\ config = DefaultConfiguration
    /\ individual_results = <<>> /\ extract_calls = 0 /\ pc = "idle" /\ fuse_result = NoCall
    /\ pipeline = DefaultPipeline /\ pip_file = NoFile /\ pip_document = NoDocument
    /\ ppc = "idle" /\ pip_result = NoCall
    /\ sov_document = NoDocument /\ sov_result = NoCall
    /\ cls_document = NoDocument /\ cls_call = NoCall
    /\ batch_files = <<>> /\ continue_on_error = TRUE /\ batch_results = <<>>
    /\ batch_return = NoCall

\* a pipeline whose composite holds the MimeClassifier, the only default
\* registration, and whatever was registered under 'keyword' and 'table'
PipelineInit ==
    /\ pipeline \in PipelineConfigurations
    /\ pip_file \in PipelineFiles
    /\ pip_document = NoDocument
    /\ ppc = "load"
    /\ pip_result = NoCall
    /\ \E registered \in SeqsUpTo(RegisteredMembers, MaxRegistered) :
          classifiers = <<MimeMember(pip_file.mime_type, pip_file.file_extension)>> \o registered
    /\ strategy \in {"highest_confidence", "voting"}
    /\ classification = NoCall
    /\ extractors = DefaultRegistry
    /\ resolved = NoCall /\ extraction = NoCall /\ registrations = 0
    /\ kw_text = {} /\ keyword_result = NoCall
    /\ group = EmptyGroup /\ config = DefaultConfiguration
    /\ individual_results = <<>> /\ extract_calls = 0 /\ pc = "idle" /\ fuse_result = NoCall
    /\ rep_document = NoDocument /\ clock = 0 /\ runs = <<>>
    /\ sov_document = NoDocument /\ sov_result = NoCall
    /\ cls_document = NoDocument /\ cls_call = NoCall
    /\ batch_files = <<>> /\ continue_on_error = TRUE /\ batch_results = <<>>
    /\ batch_return = NoCall

\* a loaded document and a composite of the MimeClassifier with the
\* KeywordClassifier, the TableClassifier or both
MimeVoteInit ==
    /\ \E f \in ClassifiedFiles, text \in ClassifiedTexts, tables \in ClassifiedTables,
          registered \in Compositions :
          /\ pip_document = [NewDocument(f) EXCEPT !.status = "LOADED",
                                                   !.raw_text = text, !.tables = tables]
          /\ pip_file = [exists |-> TRUE]
          /\ classifiers = CompositeMembers([NewDocument(f) EXCEPT !.raw_text = text,
                                                                   !.tables = tables],
                                            registered)
    /\ strategy \in Strategies
    /\ classification = NoCall
    /\ pipeline = DefaultPipeline
    /\ ppc = "loaded"
    /\ pip_result = NoCall
    /\ extractors = DefaultRegistry
    /\ resolved = NoCall /\ extraction = NoCall /\ registrations = 0
    /\ kw_text = {} /\ keyword_result = NoCall
    /\ group = EmptyGroup /\ config = DefaultConfiguration
    /\ individual_results = <<>> /\ extract_calls = 0 /\ pc = "idle" /\ fuse_result = NoCall
    /\ rep_document = NoDocument /\ clock = 0 /\ runs = <<>>
    /\ sov_document = NoDocument /\ sov_result = NoCall
    /\ cls_document = NoDocument /\ cls_call = NoCall
    /\ batch_files = <<>> /\ continue_on_error = TRUE /\ batch_results = <<>>
    /\ batch_return = NoCall

\* an SOV document with one table, not yet extracted
SovInit ==
    /\ sov_document \in SovDocuments
    /\ sov_result = NoCall
    /\ extractors = DefaultRegistry
    /\ resolved = NoCall /\ extraction = NoCall /\ registrations = 0
    /\ classifiers = <<>> /\ strategy = "highest_confidence" /\ classification = NoCall
    /\ kw_text = {} /\ keyword_result = NoCall
    /\ group = EmptyGroup /\ config = DefaultConfiguration
    /\ individual_results = <<>> /\ extract_calls = 0 /\ pc = "idle" /\ fuse_result = NoCall
    /\ rep_document = NoDocument /\ clock = 0 /\ runs = <<>>
    /\ pipeline = DefaultPipeline /\ pip_file = NoFile /\ pip_document = NoDocument
    /\ ppc = "idle" /\ pip_result = NoCall
    /\ cls_document = NoDocument /\ cls_call = NoCall
    /\ batch_files = <<>> /\ continue_on_error = TRUE /\ batch_results = <<>>
    /\ batch_return = NoCall

\* a Document as the loader leaves it, in a pipeline with some threshold
DocumentInit ==
    /\ cls_document = [NewDocument([mime_type |-> "application/pdf", file_extension |-> ".pdf",
                                    out |-> [kind |-> "fail"]])
                          EXCEPT !.status = "LOADED"]
    /\ cls_call = NoCall
    /\ pipeline \in PipelineConfigurations
    /\ pip_file = NoFile /\ pip_document = NoDocument /\ ppc = "idle" /\ pip_result = NoCall
    /\ extractors = DefaultRegistry
    /\ resolved = NoCall /\ extraction = NoCall /\ registrations = 0
    /\ classifiers = <<>> /\ strategy = "highest_confidence" /\ classification = NoCall
    /\ kw_text = {} /\ keyword_result = NoCall
    /\ group = EmptyGroup /\ config = DefaultConfiguration
    /\ individual_results = <<>> /\ extract_calls = 0 /\ pc = "idle" /\ fuse_result = NoCall
    /\ rep_document = NoDocument /\ clock = 0 /\ runs = <<>>
    /\ sov_document = NoDocument /\ sov_result = NoCall
    /\ batch_files = <<>> /\ continue_on_error = TRUE /\ batch_results = <<>>
    /\ batch_return = NoCall

\* a composite of up to MaxVoters voting members, voting or averaging
VotingInit ==
    /\ classifiers \in SeqsUpTo(VotingMembers, MaxVoters)
    /\ strategy \in {"voting", "weighted_average"}
    /\ classification = NoCall
    /\ extractors = DefaultRegistry
    /\ resolved = NoCall /\ extraction = NoCall /\ registrations = 0
    /\ kw_text = {} /\ keyword_result = NoCall
    /\ group = EmptyGroup /\ config = DefaultConfiguration
    /\ individual_results = <<>> /\ extract_calls = 0 /\ pc = "idle" /\ fuse_result = NoCall
    /\ rep_document = NoDocument /\ clock = 0 /\ runs = <<>>
    /\ pipeline = DefaultPipeline /\ pip_file = NoFile /\ pip_document = NoDocument
    /\ ppc = "idle" /\ pip_result = NoCall
    /\ sov_document = NoDocument /\ sov_result = NoCall
    /\ cls_document = NoDocument /\ cls_call = NoCall
    /\ batch_files = <<>> /\ continue_on_error = TRUE /\ batch_results = <<>>
    /\ batch_return = NoCall

\* a pipeline and the paths handed to its process_batch
BatchInit ==
    /\ batch_files \in SeqsUpTo(BatchEntries, MaxFiles)
    /\ continue_on_error \in BOOLEAN
    /\ batch_results = <<>>
    /\ batch_return = NoCall
    /\ pipeline \in PipelineConfigurations
    /\ pip_file = NoFile /\ pip_document = NoDocument /\ ppc = "idle" /\ pip_result = NoCall
    /\ classifiers = <<>> /\ strategy = "highest_confidence" /\ classification = NoCall
    /\ extractors = DefaultRegistry
    /\ resolved = NoCall /\ extraction = NoCall /\ registrations = 0
    /\ kw_text = {} /\ keyword_result = NoCall
    /\ group = EmptyGroup /\ config = DefaultConfiguration
    /\ individual_results = <<>> /\ extract_calls = 0 /\ pc = "idle" /\ fuse_result = NoCall
    /\ rep_document = NoDocument /\ clock = 0 /\ runs = <<>>
    /\ sov_document = NoDocument /\ sov_result = NoCall
    /\ cls_document = NoDocument /\ cls_call = NoCall

\* ExtractionPipeline() over the process-wide classifier_registry, and the
\* file at the path given to process, with the phrases of its text
DefaultPipelineInit ==
    /\ \E f \in PipelineFiles, text \in ClassifiedTexts :
          /\ f.tables = <<>>
          /\ f.raw_text = (IF text = {} THEN "" ELSE "text")
          /\ pip_file = f
          /\ kw_text = text
          /\ classifiers = CreateComposite(RegisterDefaultClassifiers, PipelineClassifierNames,
                               [mime_type |-> f.mime_type, file_extension |-> f.file_extension,
                                raw_text |-> text, tables |-> <<>>])
    /\ pipeline \in {c \in PipelineConfigurations : c.use_classification}
    /\ strategy = "highest_confidence"
    /\ classification = NoCall
    /\ pip_document = NoDocument
    /\ ppc = "load"
    /\ pip_result = NoCall
    /\ keyword_result = NoCall
    /\ extractors = DefaultRegistry
    /\ resolved = NoCall /\ extraction = NoCall /\ registrations = 0
    /\ group = EmptyGroup /\ config = DefaultConfiguration
    /\ individual_results = <<>> /\ extract_calls = 0 /\ pc = "idle" /\ fuse_result = NoCall
    /\ rep_document = NoDocument /\ clock = 0 /\ runs = <<>>
    /\ sov_document = NoDocument /\ sov_result = NoCall
    /\ cls_document = NoDocument /\ cls_call = NoCall
    /\ batch_files = <<>> /\ continue_on_error = TRUE /\ batch_results = <<>>
    /\ batch_return = NoCall

RegistryNext == Register \/ ResolveCall \/ ExtractCall
CompositeNext == Classify
KeywordNext == KeywordClassifyCall
FusionNext == ExtractNext \/ FinishFuse
RepeatNext == Tick \/ ClassifyThenExtract
PipelineNext == PipelineLoad \/ PipelineClassify \/ PipelineExtract
MimeVoteNext == ClassifyLoaded
SovNext == SovExtractCall
VotingNext == Classify
BatchNext == BatchProcessFile \/ BatchReturn
DefaultPipelineNext == PipelineLoad \/ PipelineClassify \/ PipelineExtract
DocumentNext == SetDocumentTypeCall \/ ClassifyAsCall \/ ClassifyDocumentCall

SpecRegistry == RegistryInit /\ [][RegistryNext]_vars
SpecComposite == CompositeInit /\ [][CompositeNext]_vars
SpecKeyword == KeywordInit /\ [][KeywordNext]_vars
SpecFusion == FusionInit /\ [][FusionNext]_vars
SpecRepeat == RepeatInit /\ [][RepeatNext]_vars
SpecPipeline == PipelineInit /\ [][PipelineNext]_vars
SpecMimeVote == MimeVoteInit /\ [][MimeVoteNext]_vars
SpecSov == SovInit /\ [][SovNext]_vars
SpecVoting == VotingInit /\ [][VotingNext]_vars
SpecBatch == BatchInit /\ [][BatchNext]_vars
SpecDefaultPipeline == DefaultPipelineInit /\ [][DefaultPipelineNext]_vars
SpecDocument == DocumentInit /\ [][DocumentNext]_vars

Spec == SpecFusion

====
